---- MODULE Spec2Model ----
(***************************************************************************)
(* A model of the circular genome viewer (gffviewer): the interval tree    *)
(* used as spatial index, the zoom/pan controller of the circular          *)
(* renderer on its two backends, label placement, hit-testing, the track   *)
(* stacking, the level-of-detail table and the per-feature angular span.   *)
(*                                                                         *)
(* Each component has its own specification over the shared variables;     *)
(* the variables of the components a specification does not exercise stay  *)
(* parked at a fixed value.                                                *)
(***************************************************************************)
EXTENDS Integers, Sequences, FiniteSets, TLC

VARIABLES
    root,        \* IntervalTree.root: the tree of IntervalNodes
    features,    \* IntervalTree.features: Map<id, Feature>
    treeOp,      \* the last IntervalTree call and its arguments
    results,     \* the array returned by the last query()
    treeHist,    \* history: TRUE while every call so far inserted a fresh id or queried
    rendererType,\* BaseRenderer.rendererType: "canvas" or "svg"
    backend,     \* the backend surface: "pending", "ready" (stage / svgContainer exist), "failed"
    group,       \* canvas: position and scale of circleContainer (stage.children[0])
    svgT,        \* svg: the transform attribute of the four scene groups
    zoomLevel,   \* CircularRenderer.zoomLevel, in tenths
    ctrl,        \* ZoomPanController: centerX, centerY, width, height, zoomLevel
    viewOp,      \* the last view call and its arguments
    pan,         \* history: scene position at the last call that was not a pan, and the offsets since
    renderedLabelAngles, \* the label intervals accepted in the current label pass
    labelOp,     \* the last label call and its outcome
    tracks,      \* genome.tracks of the renderer's genome: type, visible, features
    radius,      \* CircularRenderer.radius (and FeatureRenderer.radius), in pixels
    hitOp,       \* the last render or hover call, its arguments and its outcome
    lodOp,       \* the last LODManager call, its arguments and its outcome
    featOp,      \* the last feature drawn: the path taken, the feature and its sector
    scene,       \* a genome given to a canvas and an svg renderer, and what each drew
    eventListeners, \* the callbacks registered for each event, in order
    eventOp,     \* the last call of on/off/emit, and the callbacks emit invoked
    world,       \* a CGView with its renderer, its genomes and its pending timers
    appOp,       \* the last call on the CGView or timer fired, and its outcome
    trip,        \* a Feature, its toJSON() and what fromJSON made of it, once and twice
    drag         \* a pointer, the drag state of the two handlers, the throttle and the scene

treeVars == <<root, features, treeOp, results, treeHist>>
viewVars == <<rendererType, backend, group, svgT, zoomLevel, ctrl, viewOp, pan>>
labelVars == <<renderedLabelAngles, labelOp>>
hitVars == <<tracks, radius, hitOp>>
lodVars == <<lodOp>>
featVars == <<featOp>>
sceneVars == <<scene>>
eventVars == <<eventListeners, eventOp>>
appVars == <<world, appOp>>
tripVars == <<trip>>
dragVars == <<drag>>

\* the variables an action of one component leaves alone
nonTreeVars ==
    <<viewVars, labelVars, hitVars, lodVars, featVars, sceneVars, eventVars, appVars,
      tripVars, dragVars>>
nonViewVars ==
    <<treeVars, labelVars, hitVars, lodVars, featVars, sceneVars, eventVars, appVars,
      tripVars, dragVars>>
nonLabelVars ==
    <<treeVars, viewVars, hitVars, lodVars, featVars, sceneVars, eventVars, appVars,
      tripVars, dragVars>>
nonHitVars ==
    <<treeVars, viewVars, labelVars, lodVars, featVars, sceneVars, eventVars, appVars,
      tripVars, dragVars>>
nonLodVars ==
    <<treeVars, viewVars, labelVars, hitVars, featVars, sceneVars, eventVars, appVars,
      tripVars, dragVars>>
nonFeatVars ==
    <<treeVars, viewVars, labelVars, hitVars, lodVars, sceneVars, eventVars, appVars,
      tripVars, dragVars>>
nonSceneVars ==
    <<treeVars, viewVars, labelVars, hitVars, lodVars, featVars, eventVars, appVars,
      tripVars, dragVars>>
nonEventVars ==
    <<treeVars, viewVars, labelVars, hitVars, lodVars, featVars, sceneVars, appVars,
      tripVars, dragVars>>
nonAppVars ==
    <<treeVars, viewVars, labelVars, hitVars, lodVars, featVars, sceneVars, eventVars,
      tripVars, dragVars>>
nonTripVars ==
    <<treeVars, viewVars, labelVars, hitVars, lodVars, featVars, sceneVars, eventVars,
      appVars, dragVars>>
nonDragVars ==
    <<treeVars, viewVars, labelVars, hitVars, lodVars, featVars, sceneVars, eventVars,
      appVars, tripVars>>

vars == <<root, features, treeOp, results, treeHist,
          rendererType, backend, group, svgT, zoomLevel, ctrl, viewOp, pan,
          renderedLabelAngles, labelOp, tracks, radius, hitOp, lodOp, featOp, scene,
          eventListeners, eventOp, world, appOp, trip, drag>>

(***************************************************************************)
(* Bounds of the model.                                                    *)
(***************************************************************************)
MaxPos == 2      \* genomic positions of the interval tree are 0..MaxPos
MaxIds == 3      \* feature ids of the interval tree are 1..MaxIds
MaxNodes == 3    \* the interval tree holds at most MaxNodes nodes
MaxCoord == 12   \* scene positions stay within -MaxCoord..MaxCoord
MaxZoom == 3     \* zoom levels are 1..MaxZoom halves (0.5 .. MaxZoom / 2)
MaxPans == 2     \* at most MaxPans setPanOffset calls in a row
PanStep == 4     \* a pan offset moves by PanStep along one axis
MaxLabels == 3   \* a label pass accepts at most MaxLabels labels
MaxTracks == 3   \* a genome has at most MaxTracks tracks
MaxSteps == 5    \* the pointer is at most MaxSteps steps inside the outer circle
MaxLodZoom == 60 \* the zoom levels given to the LOD manager are 0..MaxLodZoom tenths
MaxSpan == 7     \* a drawn feature covers at most MaxSpan positions
MaxListeners == 3 \* an event has at most MaxListeners callbacks registered
MaxCalls == 3    \* a CGView receives at most MaxCalls calls
MaxFeaturePos == 2 \* the positions given to the Feature constructor are -1..MaxFeaturePos
MaxPointer == 2  \* the pointer of a drag stays within 0..MaxPointer along its line
MaxGestures == 2 \* at most MaxGestures drag gestures
MaxHighlights == 1 \* at most MaxHighlights highlightFeature calls on a genome

(***************************************************************************)
(* IntervalTree (spatial index).                                           *)
(*                                                                         *)
(* A node is the tuple <<feature, left, right, min, max>>; the empty tree  *)
(* (null) is the empty tuple.  A feature is [id, start, end].              *)
(***************************************************************************)
Nil == <<>>

NodeFeature(n) == n[1]
NodeLeft(n) == n[2]
NodeRight(n) == n[3]
NodeMin(n) == n[4]
NodeMax(n) == n[5]

\* new IntervalNode(feature): min = feature.start, max = feature.end
NewNode(f) == <<f, Nil, Nil, f.start, f.end>>

\* IntervalNode.getCenter is (start + end) / 2; the model compares twice the
\* centre, which orders the nodes the same way and stays in the integers.
Center2(f) == f.start + f.end

\* an updateMax that looked at the node's own feature only
updateMaxOwnEnd(n) == [n EXCEPT ![5] = NodeFeature(n).end]

\* IntervalNode.updateMax
updateMax(n) ==
    LET m0 == NodeFeature(n).end
        m1 == IF NodeLeft(n) # Nil /\ NodeMax(NodeLeft(n)) > m0
              THEN NodeMax(NodeLeft(n)) ELSE m0
        m2 == IF NodeRight(n) # Nil /\ NodeMax(NodeRight(n)) > m1
              THEN NodeMax(NodeRight(n)) ELSE m1
    IN  [n EXCEPT ![5] = m2]

RECURSIVE insertNode(_, _)
insertNode(node, f) ==
    IF node = Nil THEN NewNode(f)
    ELSE IF Center2(f) < Center2(NodeFeature(node))
         THEN updateMax([node EXCEPT ![2] = insertNode(NodeLeft(node), f)])
         ELSE updateMax([node EXCEPT ![3] = insertNode(NodeRight(node), f)])

intersects(f, start, end) == f.end >= start /\ f.start <= end

\* the pruning test of the left subtree in queryNode
descendLeft(node, start, end) ==
    NodeLeft(node) # Nil /\ NodeMax(NodeLeft(node)) >= start

\* the pruning test of the right subtree in queryNode
descendRight(node, start, end) ==
    NodeRight(node) # Nil /\ NodeMin(NodeRight(node)) <= end

RECURSIVE queryNode(_, _, _)
queryNode(node, start, end) ==
    IF node = Nil THEN <<>>
    ELSE (IF intersects(NodeFeature(node), start, end)
          THEN <<NodeFeature(node)>> ELSE <<>>)
         \o (IF descendLeft(node, start, end)
             THEN queryNode(NodeLeft(node), start, end) ELSE <<>>)
         \o (IF descendRight(node, start, end)
             THEN queryNode(NodeRight(node), start, end) ELSE <<>>)

RECURSIVE findMin(_)
findMin(node) == IF NodeLeft(node) # Nil THEN findMin(NodeLeft(node)) ELSE node

RECURSIVE removeNode(_, _)
removeNode(node, f) ==
    IF node = Nil THEN Nil
    ELSE IF NodeFeature(node).id = f.id
    THEN IF NodeLeft(node) = Nil /\ NodeRight(node) = Nil THEN Nil
         ELSE IF NodeLeft(node) = Nil THEN NodeRight(node)
         ELSE IF NodeRight(node) = Nil THEN NodeLeft(node)
         ELSE LET minNode == findMin(NodeRight(node))
                  n1 == [node EXCEPT ![1] = NodeFeature(minNode)]
                  n2 == [n1 EXCEPT ![3] = removeNode(NodeRight(node), NodeFeature(minNode))]
              IN  updateMax(n2)
    ELSE IF Center2(f) < Center2(NodeFeature(node))
         THEN updateMax([node EXCEPT ![2] = removeNode(NodeLeft(node), f)])
         ELSE updateMax([node EXCEPT ![3] = removeNode(NodeRight(node), f)])

RECURSIVE TreeFeatures(_)
\* the features stored in the nodes of a tree, as a sequence (pre-order)
TreeFeatures(node) ==
    IF node = Nil THEN <<>>
    ELSE <<NodeFeature(node)>> \o TreeFeatures(NodeLeft(node)) \o TreeFeatures(NodeRight(node))

SeqToSet(s) == {s[i] : i \in DOMAIN s}

\* the features a caller may insert: start <= end (Feature's constructor swaps)
FeatureInputs ==
    {[id |-> i, start |-> s, end |-> e] : i \in 1..MaxIds, s \in 0..MaxPos, e \in 0..MaxPos} \
    {f \in [id : 1..MaxIds, start : 0..MaxPos, end : 0..MaxPos] : f.start > f.end}

TreeInit ==
    /\ root = Nil
    /\ features = <<>>
    /\ treeOp = [op |-> "new", id |-> 0, start |-> 0, end |-> 0]
    /\ results = <<>>
    /\ treeHist = TRUE

\* IntervalTree.insert(feature)
Insert(f) ==
    /\ Len(TreeFeatures(root)) < MaxNodes
    /\ features' = (f.id :> f) @@ features
    /\ root' = insertNode(root, f)
    /\ treeOp' = [op |-> "insert", id |-> 0, start |-> 0, end |-> 0]
    /\ results' = <<>>
    /\ treeHist' = (treeHist /\ f.id \notin DOMAIN features)
    /\ UNCHANGED nonTreeVars

\* IntervalTree.query(start, end)
\* (treeOp.id keeps the id of a remove() that came right before the query)
Query(a, b) ==
    /\ results' = queryNode(root, a, b)
    /\ treeOp' = [op |-> "query", id |-> treeOp.id, start |-> a, end |-> b]
    /\ UNCHANGED <<root, features, treeHist>>
    /\ UNCHANGED nonTreeVars

\* IntervalTree.remove(featureId)
Remove(id) ==
    /\ IF id \in DOMAIN features
       THEN /\ features' = [i \in DOMAIN features \ {id} |-> features[i]]
            /\ root' = removeNode(root, features[id])
       ELSE UNCHANGED <<root, features>>
    /\ treeOp' = [op |-> "remove", id |-> id, start |-> 0, end |-> 0]
    /\ results' = <<>>
    /\ treeHist' = FALSE
    /\ UNCHANGED nonTreeVars

\* IntervalTree.clear()
Clear ==
    /\ root # Nil
    /\ root' = Nil
    /\ features' = <<>>
    /\ treeOp' = [op |-> "clear", id |-> 0, start |-> 0, end |-> 0]
    /\ results' = <<>>
    /\ treeHist' = TRUE
    /\ UNCHANGED nonTreeVars

TreeNext ==
    \/ \E f \in FeatureInputs : Insert(f)
    \/ \E a \in 0..MaxPos, b \in 0..MaxPos : a <= b /\ Query(a, b)
    \/ \E id \in 1..MaxIds : Remove(id)
    \/ Clear


\* the features held by the tree's identity map

(***************************************************************************)
(* Zoom and pan (ZoomPanController under CircularRenderer).                *)
(*                                                                         *)
(* Lengths are integers.  A zoom level is a number of halves: ZoomDen is   *)
(* the level 1.0.  The calls take their arguments from sets on which the   *)
(* floating-point arithmetic of the code is exact, so that the integer     *)
(* divisions below have no remainder.                                      *)
(***************************************************************************)
ZoomDen == 2

\* RENDER_CONFIG.SIDEBAR_WIDTH and RENDER_CONFIG.LEGEND_WIDTH, in model lengths
SIDEBAR_WIDTH == 4
LEGEND_WIDTH == 8

\* the container sizes a renderer is constructed with or resized to
Sizes == {<<24, 16>>, <<32, 24>>}
InitialSize == <<24, 16>>

\* the anchor points of a zoom call (screen coordinates)
Points == {<<8, 4>>, <<20, 12>>}
NoPoint == <<>>

ZoomInputs == 1..MaxZoom

PanInputs == {<<0, 0>>, <<PanStep, 0>>, <<0 - PanStep, 0>>, <<0, PanStep>>, <<0, 0 - PanStep>>}

\* CircularRenderer: centerX and centerY of a container of the given size
centerXOf(width) == SIDEBAR_WIDTH + (width - SIDEBAR_WIDTH - LEGEND_WIDTH) \div 2
centerYOf(height) == height \div 2

\* a freshly created circleContainer: position (0, 0), scale 1
FreshGroup == [x |-> 0, y |-> 0, scale |-> ZoomDen]

\* the transform attribute of a freshly appended <g>: absent
NoTransform == [set |-> FALSE, x |-> 0, y |-> 0, scaled |-> FALSE, scale |-> 0]

\* `translate(${x},${y})`
formatTranslate(x, y) == [set |-> TRUE, x |-> x, y |-> y, scaled |-> FALSE, scale |-> 0]

\* `translate(${x},${y}) scale(${level})`
formatTranslateScale(x, y, level) ==
    [set |-> TRUE, x |-> x, y |-> y, scaled |-> TRUE, scale |-> level]

\* (g.attr('transform') || 'translate(0,0)').match(/translate\(([^,]+),([^\)]+)\)/)
parseTranslate(t) == IF t.set THEN <<t.x, t.y>> ELSE <<0, 0>>

\* the scale the transform attribute applies: 1 when it has no scale(...)
appliedScale(t) == IF t.set /\ t.scaled THEN t.scale ELSE ZoomDen

\* stage && stage.children[0]  /  svgContainer
containersReady == backend = "ready"

\* position and scale of the scene, on the backend in use
GroupPos == IF rendererType = "canvas" THEN <<group.x, group.y>> ELSE parseTranslate(svgT)
GroupScale == IF rendererType = "canvas" THEN group.scale ELSE appliedScale(svgT)

InRange(v) == v >= 0 - MaxCoord /\ v <= MaxCoord

\* the division (a * level) / prev has no remainder
Exact(a, level, prev) == (a * level) % prev = 0

\* ZoomPanController.setCanvasZoomLevel, with a point: the new position
canvasAnchoredPos(level, point) ==
    LET prevScale == ctrl.zoomLevel
        containerX == point[1] - group.x
        containerY == point[2] - group.y
    IN  <<point[1] - (containerX * level) \div prevScale,
          point[2] - (containerY * level) \div prevScale>>

\* ZoomPanController.setCanvasZoomLevel, without a point: the new position
canvasCenteredPos(level) ==
    <<ctrl.width \div 2 - (ctrl.centerX * level) \div ZoomDen,
      ctrl.height \div 2 - (ctrl.centerY * level) \div ZoomDen>>

\* ZoomPanController.setCanvasZoomLevel
setCanvasZoomLevel(level, point) ==
    IF ~containersReady
    THEN group' = group
    ELSE LET pos == IF point # NoPoint THEN canvasAnchoredPos(level, point)
                    ELSE canvasCenteredPos(level)
         IN  group' = [x |-> pos[1], y |-> pos[2], scale |-> level]

\* ZoomPanController.setSvgZoomLevel, with a point: the new position
svgAnchoredPos(level, point) ==
    LET cur == parseTranslate(svgT)
    IN  <<point[1] - ((point[1] - cur[1]) * level) \div ctrl.zoomLevel,
          point[2] - ((point[2] - cur[2]) * level) \div ctrl.zoomLevel>>

\* ZoomPanController.setSvgZoomLevel, without a point: the new position
svgCenteredPos(level) == parseTranslate(svgT)

\* ZoomPanController.setSvgZoomLevel
setSvgZoomLevel(level, point) ==
    LET pos == IF point # NoPoint THEN svgAnchoredPos(level, point)
               ELSE svgCenteredPos(level)
    IN  svgT' = formatTranslateScale(pos[1], pos[2], level)

\* ZoomPanController.setPanOffset on the canvas: position += offset
canvasPan(g, offset) == [g EXCEPT !.x = @ + offset[1], !.y = @ + offset[2]]

\* a setPanOffset that replaced the translation by the offset
svgPanReplace(t, offset) == formatTranslate(offset[1], offset[2])

\* ZoomPanController.setPanOffset on svg: the rewritten transform attribute
svgPan(t, offset) ==
    IF t.set
    THEN formatTranslate(t.x + offset[1], t.y + offset[2])
    ELSE formatTranslate(offset[1], offset[2])

NoViewOp == [op |-> "new", level |-> 0, point |-> NoPoint]

ViewInit ==
    /\ rendererType \in {"canvas", "svg"}
    /\ backend = (IF rendererType = "canvas" THEN "pending" ELSE "ready")
    /\ group = FreshGroup
    /\ svgT = NoTransform
    /\ zoomLevel = ZoomDen
    /\ ctrl = [centerX |-> centerXOf(InitialSize[1]), centerY |-> centerYOf(InitialSize[2]),
               width |-> InitialSize[1], height |-> InitialSize[2], zoomLevel |-> ZoomDen]
    /\ viewOp = NoViewOp
    /\ pan = [base |-> <<0, 0>>, acc |-> <<0, 0>>, n |-> 0]

\* the values the view variables keep in the specifications that leave them alone
ViewParked == ViewInit /\ rendererType = "svg"

\* history: a call that is not a pan restarts the sum of pan offsets
PanRestart == pan' = [base |-> GroupPos', acc |-> <<0, 0>>, n |-> 0]

\* BaseRenderer.initializeCanvasRenderer, app.init() resolved: the stage is
\* created, 'initialized' is emitted and initializeCanvasContainers runs
CanvasInitialized ==
    /\ rendererType = "canvas" /\ backend = "pending"
    /\ backend' = "ready"
    /\ group' = FreshGroup
    /\ viewOp' = [op |-> "init", level |-> 0, point |-> NoPoint]
    /\ UNCHANGED <<rendererType, svgT, zoomLevel, ctrl>>
    /\ PanRestart
    /\ UNCHANGED nonViewVars

\* BaseRenderer.initializeCanvasRenderer, app.init() rejected: stage stays null
CanvasInitFailed ==
    /\ rendererType = "canvas" /\ backend = "pending"
    /\ backend' = "failed"
    /\ viewOp' = [op |-> "init", level |-> 0, point |-> NoPoint]
    /\ UNCHANGED <<rendererType, group, svgT, zoomLevel, ctrl>>
    /\ PanRestart
    /\ UNCHANGED nonViewVars

\* CircularRenderer.setZoomLevel(level, point)
SetZoomLevel(level, point) ==
    /\ (point # NoPoint /\ containersReady) =>
          /\ Exact(point[1] - GroupPos[1], level, ctrl.zoomLevel)
          /\ Exact(point[2] - GroupPos[2], level, ctrl.zoomLevel)
    /\ zoomLevel' = level
    /\ IF rendererType = "canvas"
       THEN setCanvasZoomLevel(level, point) /\ svgT' = svgT
       ELSE setSvgZoomLevel(level, point) /\ group' = group
    /\ ctrl' = [ctrl EXCEPT !.zoomLevel = level]
    /\ InRange(group'.x) /\ InRange(group'.y) /\ InRange(svgT'.x) /\ InRange(svgT'.y)
    /\ viewOp' = [op |-> "zoom", level |-> level, point |-> point]
    /\ UNCHANGED <<rendererType, backend>>
    /\ PanRestart
    /\ UNCHANGED nonViewVars

\* CircularRenderer.setPanOffset(offset)
SetPanOffset(offset) ==
    /\ pan.n < MaxPans
    /\ IF rendererType = "canvas"
       THEN /\ group' = (IF containersReady THEN canvasPan(group, offset) ELSE group)
            /\ svgT' = svgT
       ELSE /\ svgT' = svgPan(svgT, offset)
            /\ group' = group
    /\ InRange(group'.x) /\ InRange(group'.y) /\ InRange(svgT'.x) /\ InRange(svgT'.y)
    /\ viewOp' = [op |-> "pan", level |-> 0, point |-> NoPoint]
    /\ pan' = [pan EXCEPT !.acc = <<@[1] + offset[1], @[2] + offset[2]>>, !.n = @ + 1]
    /\ UNCHANGED <<rendererType, backend, zoomLevel, ctrl>>
    /\ UNCHANGED nonViewVars

\* CircularRenderer.updateSize(width, height): new centre, containers re-initialised
UpdateSize(size) ==
    /\ ctrl' = [ctrl EXCEPT !.centerX = centerXOf(size[1]), !.centerY = centerYOf(size[2]),
                            !.width = size[1], !.height = size[2]]
    /\ IF rendererType = "canvas"
       THEN /\ group' = (IF backend = "ready" THEN FreshGroup ELSE group)
            /\ svgT' = svgT
       ELSE /\ svgT' = NoTransform
            /\ group' = group
    /\ viewOp' = [op |-> "updateSize", level |-> 0, point |-> NoPoint]
    /\ UNCHANGED <<rendererType, backend, zoomLevel>>
    /\ PanRestart
    /\ UNCHANGED nonViewVars

\* CGView.resetView(), and the reset-zoom button of ControlsManager:
\* setZoomLevel(1) followed by setPanOffset({x: 0, y: 0})
ResetView ==
    /\ zoomLevel' = ZoomDen
    /\ ctrl' = [ctrl EXCEPT !.zoomLevel = ZoomDen]
    /\ IF rendererType = "canvas"
       THEN /\ group' = (IF containersReady
                         THEN canvasPan([x |-> canvasCenteredPos(ZoomDen)[1],
                                         y |-> canvasCenteredPos(ZoomDen)[2],
                                         scale |-> ZoomDen], <<0, 0>>)
                         ELSE group)
            /\ svgT' = svgT
       ELSE /\ svgT' = svgPan(formatTranslateScale(svgCenteredPos(ZoomDen)[1],
                                                   svgCenteredPos(ZoomDen)[2], ZoomDen),
                              <<0, 0>>)
            /\ group' = group
    /\ InRange(group'.x) /\ InRange(group'.y) /\ InRange(svgT'.x) /\ InRange(svgT'.y)
    /\ viewOp' = [op |-> "reset", level |-> ZoomDen, point |-> NoPoint]
    /\ UNCHANGED <<rendererType, backend>>
    /\ PanRestart
    /\ UNCHANGED nonViewVars

ViewNext ==
    \/ CanvasInitialized
    \/ CanvasInitFailed
    \/ \E level \in ZoomInputs : SetZoomLevel(level, NoPoint)
    \/ \E level \in ZoomInputs, point \in Points : SetZoomLevel(level, point)
    \/ \E offset \in PanInputs : SetPanOffset(offset)
    \/ \E size \in Sizes : UpdateSize(size)
    \/ ResetView

(***************************************************************************)
(* Label placement (canRenderLabel / checkAngleCollision).                 *)
(*                                                                         *)
(* Angles are integers: one unit is 1/40000 rad, and 2 * Math.PI is taken  *)
(* as 251320 units.  The genome length divides it, so that every angle of  *)
(* a feature is a whole number of units.                                   *)
(***************************************************************************)
TwoPi == 251320
LABEL_ANGLE_WIDTH == 3200
LabelGenomeLength == 6283

\* the genomic positions the candidate features start and end at
LabelPositions == {1, 41, 121, 3000, 3040, 6243, 6283}

\* the candidate features of a label pass: [start, end] with start <= end
LabelCandidates ==
    {[start |-> a, end |-> b] : a \in LabelPositions, b \in LabelPositions} \
    {f \in [start : LabelPositions, end : LabelPositions] : f.start > f.end \/ f.end - f.start > 120}

\* canRenderLabel: the interval a label of the feature needs
labelInterval(feature, genomeLength, labelAngleWidth) ==
    LET featureStartAngle == (feature.start * TwoPi) \div genomeLength
        featureEndAngle == (feature.end * TwoPi) \div genomeLength
        featureCenterAngle == (featureStartAngle + featureEndAngle) \div 2
    IN  [start |-> featureCenterAngle - labelAngleWidth \div 2,
         end |-> featureCenterAngle + labelAngleWidth \div 2]

checkAngleCollision(currentStart, currentEnd, labelStart, labelEnd) ==
    \/ (currentStart < labelEnd /\ currentEnd > labelStart)
    \/ (currentStart + TwoPi < labelEnd /\ currentEnd + TwoPi > labelStart)

\* canRenderLabel: renderedLabelAngles.some(label => checkAngleCollision(...))
isCollision(cur, rendered) ==
    \E i \in DOMAIN rendered :
        checkAngleCollision(cur.start, cur.end, rendered[i].start, rendered[i].end)

LabelInit ==
    /\ renderedLabelAngles = <<>>
    /\ labelOp = [op |-> "new", accepted |-> FALSE]

\* renderCanvasLabels / renderSvgLabels / generateLabelsSVG: a pass starts
\* with an empty list of accepted intervals
StartLabelPass ==
    /\ renderedLabelAngles # <<>>
    /\ renderedLabelAngles' = <<>>
    /\ labelOp' = [op |-> "pass", accepted |-> FALSE]
    /\ UNCHANGED nonLabelVars

\* canRenderLabel(feature, genomeLength, renderedLabelAngles, labelAngleWidth)
CanRenderLabel(feature) ==
    LET cur == labelInterval(feature, LabelGenomeLength, LABEL_ANGLE_WIDTH)
    IN  /\ Len(renderedLabelAngles) < MaxLabels
        /\ IF ~isCollision(cur, renderedLabelAngles)
           THEN /\ renderedLabelAngles' = Append(renderedLabelAngles, cur)
                /\ labelOp' = [op |-> "label", accepted |-> TRUE]
           ELSE /\ renderedLabelAngles' = renderedLabelAngles
                /\ labelOp' = [op |-> "label", accepted |-> FALSE]
        /\ UNCHANGED nonLabelVars

LabelNext ==
    \/ StartLabelPass
    \/ \E feature \in LabelCandidates : CanRenderLabel(feature)

(***************************************************************************)
(* Track stacking and hit-testing (renderCanvasFeatures / renderSvgFeatures *)
(* with FeatureRenderer, and detectHoveredFeature).                         *)
(*                                                                         *)
(* Radii are integers: one pixel is SubPixel units, so that radius divided  *)
(* by a band count + 2 of 2..6 is a whole number of units.  Genomic         *)
(* distances are compared doubled, which keeps feature centres whole.       *)
(***************************************************************************)
SubPixel == 60

\* RENDER_CONFIG.MIN_TRACK_HEIGHT, MAX_TRACK_HEIGHT, TRACK_SPACING (pixels)
MIN_TRACK_HEIGHT == 15
MAX_TRACK_HEIGHT == 30
TRACK_SPACING == 5

\* the literals of detectHoveredFeature (pixels)
minTrackHeight == 15
maxTrackHeight == 30
trackSpacing == 5

HitGenomeLength == 100

GCTypes == {"gc_content", "gc_skew_plus", "gc_skew_minus"}

Min(a, b) == IF a < b THEN a ELSE b
Max(a, b) == IF a > b THEN a ELSE b
Abs(a) == IF a < 0 THEN 0 - a ELSE a

\* the features a track of the model holds (built by Feature's constructor:
\* a non-empty id, start <= end)
HitFeatureLists ==
    { <<>>,
      <<[id |-> "f3", name |-> "", type |-> "misc", start |-> 8, end |-> 12],
        [id |-> "f4", name |-> "b", type |-> "CDS", start |-> 90, end |-> 100],
        [id |-> "f5", name |-> "", type |-> "gene", start |-> 40, end |-> 60]>> }

GCFeatureList ==
    <<[id |-> "g1", name |-> "", type |-> "gc", start |-> 0, end |-> 50],
      [id |-> "g2", name |-> "", type |-> "gc", start |-> 50, end |-> 100]>>

\* the radii the constructor computes for the containers of the model
RadiusInputs == {40, 60, 100}

\* the radii of the scenes drawn on both backends
SceneRadii == {60, 100}

isNonGC(t) == t.type \notin GCTypes

RECURSIVE findTrackFrom(_, _, _)
\* Array.find, as the index of the first track of the type (0: undefined)
findTrackFrom(ts, type, i) ==
    IF i > Len(ts) THEN 0
    ELSE IF ts[i].type = type THEN i ELSE findTrackFrom(ts, type, i + 1)

findTrack(ts, type) == findTrackFrom(ts, type, 1)

RECURSIVE visibleNonGCFrom(_, _)
\* nonGCTracks.filter(track => track.visible), as the indices of the tracks
visibleNonGCFrom(ts, i) ==
    IF i > Len(ts) THEN <<>>
    ELSE (IF isNonGC(ts[i]) /\ ts[i].visible THEN <<i>> ELSE <<>>)
         \o visibleNonGCFrom(ts, i + 1)

visibleNonGCTracks(ts) == visibleNonGCFrom(ts, 1)

\* gcContentTrack && gcContentTrack.visible, and the like
trackVisible(ts, type) == findTrack(ts, type) # 0 /\ ts[findTrack(ts, type)].visible

gcSkewVisible(ts) == trackVisible(ts, "gc_skew_plus") \/ trackVisible(ts, "gc_skew_minus")

\* the number of bands: actualTrackCount
actualTrackCount(ts) ==
    Len(visibleNonGCTracks(ts))
    + (IF trackVisible(ts, "gc_content") THEN 1 ELSE 0)
    + (IF gcSkewVisible(ts) THEN 1 ELSE 0)

\* the track a merged GC skew band stands for
skewTrack(ts) ==
    IF trackVisible(ts, "gc_skew_plus")
    THEN findTrack(ts, "gc_skew_plus") ELSE findTrack(ts, "gc_skew_minus")

\* a band of the stack: the track it belongs to and its radii
Band(track, outerRadius, trackHeight) ==
    [track |-> track, innerRadius |-> outerRadius - trackHeight, outerRadius |-> outerRadius]

\* FeatureRenderer.calculateTrackHeight
calculateTrackHeight(nonGCTrackCount, gcContentVisible, skewVisible, r) ==
    LET count == nonGCTrackCount + (IF gcContentVisible THEN 1 ELSE 0)
                                 + (IF skewVisible THEN 1 ELSE 0)
    IN  Min(MAX_TRACK_HEIGHT * SubPixel,
            Max(MIN_TRACK_HEIGHT * SubPixel, (r * SubPixel) \div (count + 2)))

RECURSIVE renderNonGCTracks(_, _, _, _, _)
\* FeatureRenderer.renderCanvasNonGCTracks / renderSvgNonGCTracks: the
\* backgrounds drawn, and the radius returned
renderNonGCTracks(idxs, drawn, currentRadius, trackHeight, spacing) ==
    IF idxs = <<>> THEN [bands |-> drawn, currentRadius |-> currentRadius]
    ELSE renderNonGCTracks(Tail(idxs),
                           Append(drawn, Band(idxs[1], currentRadius, trackHeight)),
                           currentRadius - (trackHeight + spacing), trackHeight, spacing)

\* CircularRenderer.renderCanvasFeatures / renderSvgFeatures: the bands drawn
renderFeatures(ts, r) ==
    LET trackHeight == calculateTrackHeight(Len(visibleNonGCTracks(ts)),
                           trackVisible(ts, "gc_content"), gcSkewVisible(ts), r)
        spacing == TRACK_SPACING * SubPixel
        a == renderNonGCTracks(visibleNonGCTracks(ts), <<>>, r * SubPixel, trackHeight, spacing)
        b == IF trackVisible(ts, "gc_content")
             THEN [bands |-> Append(a.bands, Band(findTrack(ts, "gc_content"),
                                                  a.currentRadius, trackHeight)),
                   currentRadius |-> a.currentRadius - trackHeight - spacing]
             ELSE a
    IN  IF gcSkewVisible(ts)
        THEN Append(b.bands, Band(skewTrack(ts), b.currentRadius, trackHeight))
        ELSE b.bands

\* a track height that divided the radius by the band count + 1
hitTrackHeightOff(count, r) ==
    Min(maxTrackHeight * SubPixel,
        Max(minTrackHeight * SubPixel, (r * SubPixel) \div (count + 1)))

\* detectHoveredFeature: trackHeight
hitTrackHeight(count, r) ==
    Min(maxTrackHeight * SubPixel,
        Max(minTrackHeight * SubPixel, (r * SubPixel) \div (count + 2)))

RECURSIVE hitNonGCRanges(_, _, _, _, _)
\* detectHoveredFeature: the loop over visibleNonGCTracks
hitNonGCRanges(idxs, ranges, currentRadius, trackHeight, spacing) ==
    IF idxs = <<>> THEN [bands |-> ranges, currentRadius |-> currentRadius]
    ELSE hitNonGCRanges(Tail(idxs),
                        Append(ranges, Band(idxs[1], currentRadius, trackHeight)),
                        currentRadius - (trackHeight + spacing), trackHeight, spacing)

\* detectHoveredFeature: trackRanges
trackRanges(ts, r) ==
    LET trackHeight == hitTrackHeight(actualTrackCount(ts), r)
        spacing == trackSpacing * SubPixel
        a == hitNonGCRanges(visibleNonGCTracks(ts), <<>>, r * SubPixel, trackHeight, spacing)
        b == IF trackVisible(ts, "gc_content")
             THEN [bands |-> Append(a.bands, Band(findTrack(ts, "gc_content"),
                                                  a.currentRadius, trackHeight)),
                   currentRadius |-> a.currentRadius - (trackHeight + spacing)]
             ELSE a
    IN  IF gcSkewVisible(ts)
        THEN Append(b.bands, Band(skewTrack(ts), b.currentRadius, trackHeight))
        ELSE b.bands

RECURSIVE matchRange(_, _, _)
\* detectHoveredFeature: the search of trackRanges.reverse(), from the
\* innermost band (index i) outwards; 0 when no band holds the distance
matchRange(ranges, i, distance) ==
    IF i = 0 THEN 0
    ELSE IF distance >= ranges[i].innerRadius /\ distance <= ranges[i].outerRadius
         THEN ranges[i].track
         ELSE matchRange(ranges, i - 1, distance)

\* detectHoveredFeature: the features it considers
isHoverable(f) == f.type = "gene" \/ f.type = "CDS" \/ f.name # "" \/ f.id # ""

\* a distance along the genome that ignored the wraparound
linearDistance2(center2, position2, genomeLength) == Abs(center2 - position2)

\* detectHoveredFeature: the distance of a feature centre to the pointer's
\* genomic position, both doubled
circularDistance2(center2, position2, genomeLength) ==
    LET distance2 == Abs(center2 - position2)
    IN  IF distance2 > genomeLength THEN 2 * genomeLength - distance2 ELSE distance2

RECURSIVE closestFeature(_, _, _, _, _)
\* detectHoveredFeature: the forEach over currentTrack.features; closest is
\* <<>> while minDistance is Infinity
closestFeature(fs, i, position2, genomeLength, closest) ==
    IF i > Len(fs) THEN closest
    ELSE LET f == fs[i]
             d == circularDistance2(f.start + f.end, position2, genomeLength)
             better == isHoverable(f) /\
                       (closest = <<>> \/
                        d < circularDistance2(closest[1].start + closest[1].end,
                                              position2, genomeLength))
         IN  closestFeature(fs, i + 1, position2, genomeLength,
                            IF better THEN <<f>> ELSE closest)

\* detectHoveredFeature: the pointer in the coordinates of the scene
adjusted(x, y) ==
    IF rendererType = "canvas"
    THEN IF containersReady
         THEN <<((x - group.x) * ZoomDen) \div zoomLevel, ((y - group.y) * ZoomDen) \div zoomLevel>>
         ELSE <<x, y>>
    ELSE <<((x - parseTranslate(svgT)[1]) * ZoomDen) \div appliedScale(svgT),
           ((y - parseTranslate(svgT)[2]) * ZoomDen) \div appliedScale(svgT)>>

\* Math.sqrt(dx * dx + dy * dy), in sub-pixel units, for a pointer on an axis
\* through the centre
pointerDistance(dx, dy) == (Abs(dx) + Abs(dy)) * SubPixel

\* Math.atan2(dy, dx) made positive, in quarter turns, for a pointer on an
\* axis through the centre
pointerQuarter(dx, dy) ==
    IF dy = 0 THEN (IF dx >= 0 THEN 0 ELSE 2) ELSE (IF dy > 0 THEN 1 ELSE 3)

\* detectHoveredFeature(x, y): <<>> for null, <<feature>> otherwise
detectHoveredFeature(x, y) ==
    LET p == adjusted(x, y)
        dx == p[1] - ctrl.centerX
        dy == p[2] - ctrl.centerY
        distance == pointerDistance(dx, dy)
        genomePosition2 == (pointerQuarter(dx, dy) * HitGenomeLength) \div 2
        ranges == trackRanges(tracks, radius)
        currentTrack == matchRange(ranges, Len(ranges), distance)
    IN  IF currentTrack = 0 THEN <<>>
        ELSE closestFeature(tracks[currentTrack].features, 1, genomePosition2,
                            HitGenomeLength, <<>>)

\* the tracks a genome of the model is made of
TrackInputs ==
    {[type |-> "gene", visible |-> TRUE, features |-> fl] : fl \in HitFeatureLists}
    \cup {[type |-> t, visible |-> TRUE, features |-> GCFeatureList] : t \in GCTypes}

\* a step of the pointer towards the centre, in pixels
PointerStep == 15

\* the offsets of the pointer from the centre: on an axis, in pixels
PointerOffsets(r) ==
    LET ds == {d \in {r - k * PointerStep : k \in (0 - 1)..MaxSteps} : d >= 0}
    IN  {<<d, 0>> : d \in ds} \cup {<<0, 0 - d>> : d \in ds}

NoHitOp == [op |-> "new", x |-> 0, y |-> 0, result |-> <<>>, bands |-> <<>>]

HitInit ==
    /\ tracks = <<>>
    /\ radius \in RadiusInputs
    /\ hitOp = NoHitOp

\* Genome.addTrack(track), on the renderer's genome
AddTrack(track) ==
    /\ Len(tracks) < MaxTracks
    /\ track.type \in GCTypes => \A i \in DOMAIN tracks : tracks[i].type # track.type
    /\ tracks' = Append(tracks, track)
    /\ hitOp' = [NoHitOp EXCEPT !.op = "addTrack"]
    /\ UNCHANGED radius
    /\ UNCHANGED nonHitVars

\* CircularRenderer.setGenome(genome), with a genome that has no track yet
SetGenome ==
    /\ tracks # <<>>
    /\ tracks' = <<>>
    /\ hitOp' = [NoHitOp EXCEPT !.op = "setGenome"]
    /\ UNCHANGED radius
    /\ UNCHANGED nonHitVars

\* track.visible = checked (the track list of the sidebar)
SetTrackVisible(i, v) ==
    /\ tracks[i].visible # v
    /\ tracks' = [tracks EXCEPT ![i].visible = v]
    /\ hitOp' = [NoHitOp EXCEPT !.op = "visible"]
    /\ UNCHANGED radius
    /\ UNCHANGED nonHitVars

\* CircularRenderer.renderCanvasFeatures / renderSvgFeatures
RenderFeatures ==
    /\ hitOp' = [NoHitOp EXCEPT !.op = "render", !.bands = renderFeatures(tracks, radius)]
    /\ UNCHANGED <<tracks, radius>>
    /\ UNCHANGED nonHitVars

\* CircularRenderer.handleMouseMove: detectHoveredFeature(x, y)
Hover(x, y) ==
    /\ hitOp' = [NoHitOp EXCEPT !.op = "hover", !.x = x, !.y = y,
                                !.result = detectHoveredFeature(x, y)]
    /\ UNCHANGED <<tracks, radius>>
    /\ UNCHANGED nonHitVars

HitNext ==
    \/ \E track \in TrackInputs : AddTrack(track)
    \/ SetGenome
    \/ \E i \in DOMAIN tracks, v \in BOOLEAN : SetTrackVisible(i, v)
    \/ RenderFeatures
    \/ \E o \in PointerOffsets(radius) : Hover(ctrl.centerX + o[1], ctrl.centerY + o[2])

(***************************************************************************)
(* Level of detail (LODManager).                                           *)
(*                                                                         *)
(* Zoom levels are whole tenths here; Infinity is the number -1, which no  *)
(* zoom level takes.                                                       *)
(***************************************************************************)
Infinity == -1

\* LODManager constructor: this.levels
levels ==
    << [minZoom |-> 0,  maxZoom |-> 1,        detailLevel |-> 1, showLabels |-> FALSE],
       [minZoom |-> 1,  maxZoom |-> 5,        detailLevel |-> 2, showLabels |-> FALSE],
       [minZoom |-> 5,  maxZoom |-> 10,       detailLevel |-> 3, showLabels |-> TRUE],
       [minZoom |-> 10, maxZoom |-> 20,       detailLevel |-> 4, showLabels |-> TRUE],
       [minZoom |-> 20, maxZoom |-> 50,       detailLevel |-> 5, showLabels |-> TRUE],
       [minZoom |-> 50, maxZoom |-> Infinity, detailLevel |-> 6, showLabels |-> TRUE] >>

\* a number is below a bound that may be Infinity
Below(z, bound) == bound = Infinity \/ z < bound

\* a bucket test that took the upper bound in
inBucketClosed(z, level) == z >= level.minZoom /\ (level.maxZoom = Infinity \/ z <= level.maxZoom)

\* getLOD: zoomLevel >= level.minZoom && zoomLevel < level.maxZoom
inBucket(z, level) == z >= level.minZoom /\ Below(z, level.maxZoom)

RECURSIVE getLODFrom(_, _)
\* getLOD: the loop over this.levels from index i, and the fallback after it
getLODFrom(z, i) ==
    IF i > Len(levels) THEN levels[Len(levels)]
    ELSE IF inBucket(z, levels[i]) THEN levels[i] ELSE getLODFrom(z, i + 1)

getLOD(z) == getLODFrom(z, 1)

\* shouldRenderLabel: the feature's width (end - start) * zoomLevel is at
\* least 30 in a bucket that shows labels
shouldRenderLabel(length, z) ==
    IF ~getLOD(z).showLabels THEN FALSE
    ELSE IF length * z < 30 * 10 THEN FALSE ELSE TRUE

LodZooms == 0..MaxLodZoom
LodFeatureLengths == {10, 30, 1000}

LodInit == lodOp = [op |-> "new", zoom |-> 0, detailLevel |-> 0, label |-> FALSE]

\* LODManager.getLOD(zoomLevel)
GetLOD(z) ==
    /\ lodOp' = [op |-> "getLOD", zoom |-> z, detailLevel |-> getLOD(z).detailLevel,
                 label |-> FALSE]
    /\ UNCHANGED nonLodVars

\* LODManager.shouldRenderLabel(feature, zoomLevel)
ShouldRenderLabel(length, z) ==
    /\ lodOp' = [op |-> "shouldRenderLabel", zoom |-> z,
                 detailLevel |-> getLOD(z).detailLevel, label |-> shouldRenderLabel(length, z)]
    /\ UNCHANGED nonLodVars

LodNext ==
    \/ \E z \in LodZooms : GetLOD(z)
    \/ \E z \in LodZooms, length \in LodFeatureLengths : ShouldRenderLabel(length, z)

(***************************************************************************)
(* The angular span of a drawn feature (renderCanvasFeature,               *)
(* renderSvgFeature, generateFeatureSVG).                                  *)
(*                                                                         *)
(* Angles are in the units of the label placement (1/40000 rad), a ratio   *)
(* is a number of thousandths.                                             *)
(***************************************************************************)
\* RENDER_CONFIG: MIN_ANGLE_WIDTH, MIN_GAP_ANGLE, MAX_GAP_ANGLE, GAP_ANGLE_RATIO
RENDER_CONFIG ==
    [MIN_ANGLE_WIDTH |-> 200, MIN_GAP_ANGLE |-> 20, MAX_GAP_ANGLE |-> 80,
     GAP_ANGLE_RATIO |-> 50]

\* the literals of generateFeatureSVG: 0.005, 0.0005, 0.002, 0.05
ExportConfig ==
    [MIN_ANGLE_WIDTH |-> 200, MIN_GAP_ANGLE |-> 20, MAX_GAP_ANGLE |-> 80,
     GAP_ANGLE_RATIO |-> 50]

\* a widening that kept the start angle
widenFromStart(baseStartAngle, baseEndAngle, minAngleWidth) ==
    IF baseEndAngle - baseStartAngle < minAngleWidth
    THEN [start |-> baseStartAngle, end |-> baseStartAngle + minAngleWidth]
    ELSE [start |-> baseStartAngle, end |-> baseEndAngle]

\* the widening of a span below the minimum width, about its centre
widen(baseStartAngle, baseEndAngle, minAngleWidth) ==
    IF baseEndAngle - baseStartAngle < minAngleWidth
    THEN LET centerAngle == (baseStartAngle + baseEndAngle) \div 2
             halfMinAngle == minAngleWidth \div 2
         IN  [start |-> centerAngle - halfMinAngle, end |-> centerAngle + halfMinAngle]
    ELSE [start |-> baseStartAngle, end |-> baseEndAngle]

\* Math.min(maxGapAngle, Math.max(minGapAngle, baseAngleWidth * ratio))
gapAngle(baseAngleWidth, config) ==
    Min(config.MAX_GAP_ANGLE,
        Max(config.MIN_GAP_ANGLE, (baseAngleWidth * config.GAP_ANGLE_RATIO) \div 1000))

\* the sector of a feature: startAngle, endAngle, and whether it is drawn
featureSector(feature, genomeLength, config) ==
    LET base == widen((feature.start * TwoPi) \div genomeLength,
                      (feature.end * TwoPi) \div genomeLength, config.MIN_ANGLE_WIDTH)
        gap == gapAngle(base.end - base.start, config)
    IN  [startAngle |-> base.start + gap, endAngle |-> base.end - gap,
         drawn |-> (base.end - gap) - (base.start + gap) > 0]

\* the features drawn: a few places on the genome, spans of 0..MaxSpan
DrawnFeatures ==
    {[start |-> a, end |-> a + n] : a \in {0, 1, 100, 3000, 6283 - MaxSpan}, n \in 0..MaxSpan}

FeatInit == featOp = [op |-> "new", feature |-> [start |-> 0, end |-> 0],
                      startAngle |-> 0, endAngle |-> 0, drawn |-> FALSE]

\* the record of a feature drawn on one of the paths
Drawn(op, feature, sector) ==
    [op |-> op, feature |-> feature, startAngle |-> sector.startAngle,
     endAngle |-> sector.endAngle, drawn |-> sector.drawn]

\* FeatureRenderer.renderCanvasFeature
RenderCanvasFeature(feature) ==
    /\ featOp' = Drawn("canvas", feature, featureSector(feature, LabelGenomeLength, RENDER_CONFIG))
    /\ UNCHANGED nonFeatVars

\* FeatureRenderer.renderSvgFeature
RenderSvgFeature(feature) ==
    /\ featOp' = Drawn("svg", feature, featureSector(feature, LabelGenomeLength, RENDER_CONFIG))
    /\ UNCHANGED nonFeatVars

\* CGView.generateFeatureSVG
GenerateFeatureSVG(feature) ==
    /\ featOp' = Drawn("export", feature, featureSector(feature, LabelGenomeLength, ExportConfig))
    /\ UNCHANGED nonFeatVars

FeatNext ==
    \/ \E feature \in DrawnFeatures : RenderCanvasFeature(feature)
    \/ \E feature \in DrawnFeatures : RenderSvgFeature(feature)
    \/ \E feature \in DrawnFeatures : GenerateFeatureSVG(feature)

(***************************************************************************)
(* The sectors drawn by the two backends (renderCanvasFeatures,            *)
(* renderSvgFeatures and the FeatureRenderer methods they call).           *)
(*                                                                         *)
(* Radii are in sub-pixel units, angles in 1/40000 rad, the value of a GC  *)
(* feature in hundredths.  A pass that throws keeps what it drew so far.   *)
(***************************************************************************)
\* an annulus sector: arc(outerRadius, startAngle, endAngle), arc(innerRadius,
\* endAngle, startAngle) on the canvas, createArcPath / createAnnulusPath in svg
Sector(outerRadius, innerRadius, startAngle, endAngle) ==
    [outerRadius |-> outerRadius, innerRadius |-> innerRadius,
     startAngle |-> startAngle, endAngle |-> endAngle]

\* isHighlighted: highlighted is <<>> for null
isHighlighted(feature, highlighted) ==
    /\ highlighted # <<>>
    /\ \/ highlighted[1].id # "" /\ feature.id = highlighted[1].id
       \/ highlighted[1].name # "" /\ feature.name = highlighted[1].name
       \/ feature.start = highlighted[1].start /\ feature.end = highlighted[1].end

\* renderCanvasFeature / renderSvgFeature: what one feature of a track that
\* went through the loop of its track adds to the feature container
renderFeature(feature, track, r, trackHeight, highlighted) ==
    LET a == featureSector(feature, LabelGenomeLength, RENDER_CONFIG)
        normalizedValue == feature.value - 5000
        barHeight == (Abs(normalizedValue) * trackHeight * 8) \div (2000 * 10)
    IN  IF track.type = "gc_content"
        THEN IF normalizedValue > 0
             THEN <<Sector(r + barHeight, r, a.startAngle, a.endAngle)>>
             ELSE <<Sector(r, r - barHeight, a.startAngle, a.endAngle)>>
        ELSE IF ~a.drawn THEN <<>>
        ELSE IF isHoverable(feature) /\ isHighlighted(feature, highlighted)
        THEN <<Sector(r + 2 * SubPixel, r - trackHeight - 2 * SubPixel,
                      a.startAngle - 400, a.endAngle + 400)>>
        ELSE <<Sector(r, r - trackHeight, a.startAngle, a.endAngle)>>

RECURSIVE renderTrack(_, _, _, _, _)
\* render*NonGCTracks (one track) / render*GCTrack: the background, then the
\* features from index i on
renderTrack(track, i, r, trackHeight, highlighted) ==
    IF i = 0
    THEN <<Sector(r, r - trackHeight, 0, TwoPi)>>
         \o renderTrack(track, 1, r, trackHeight, highlighted)
    ELSE IF i > Len(track.features) THEN <<>>
    ELSE renderFeature(track.features[i], track, r, trackHeight, highlighted)
         \o renderTrack(track, i + 1, r, trackHeight, highlighted)

RECURSIVE renderTracks(_, _, _, _, _, _)
\* render*NonGCTracks: tracks.forEach
renderTracks(ts, idxs, r, trackHeight, spacing, highlighted) ==
    IF idxs = <<>> THEN <<>>
    ELSE renderTrack(ts[idxs[1]], 0, r, trackHeight, highlighted)
         \o renderTracks(ts, Tail(idxs), r - (trackHeight + spacing), trackHeight,
                         spacing, highlighted)

\* mergeGCSkewFeatures: the positive features of a visible GC skew+ track and
\* the negative ones of a visible GC skew- track, sorted by start
mergeGCSkewFeatures(ts) ==
    LET plus == IF trackVisible(ts, "gc_skew_plus")
                THEN SelectSeq(ts[findTrack(ts, "gc_skew_plus")].features,
                               LAMBDA f : f.value > 0)
                ELSE <<>>
        minus == IF trackVisible(ts, "gc_skew_minus")
                 THEN SelectSeq(ts[findTrack(ts, "gc_skew_minus")].features,
                                LAMBDA f : f.value < 0)
                 ELSE <<>>
    IN  SortSeq(plus \o minus, LAMBDA a, b : a.start < b.start)

RECURSIVE mergedGCSkewBars(_, _, _, _)
\* render*MergedGCSkewFeatures: gcSkewFeatures.forEach from index i on
mergedGCSkewBars(fs, i, r, trackHeight) ==
    IF i > Len(fs) THEN <<>>
    ELSE LET f == fs[i]
             barHeight == (Abs(f.value) * trackHeight * 8) \div (50 * 10)
             startAngle == (f.start * TwoPi) \div LabelGenomeLength
             endAngle == (f.end * TwoPi) \div LabelGenomeLength
         IN  <<IF f.value > 0 THEN Sector(r + barHeight, r, startAngle, endAngle)
               ELSE Sector(r, r - barHeight, startAngle, endAngle)>>
             \o mergedGCSkewBars(fs, i + 1, r, trackHeight)

\* render*MergedGCSkewFeatures throws a TypeError: the svg method reads the
\* colour of both GC skew tracks before its loop, the canvas method reads the
\* colour of the track of the sign of each value
mergedGCSkewThrows(kind, ts) ==
    IF kind = "svg"
    THEN findTrack(ts, "gc_skew_plus") = 0 \/ findTrack(ts, "gc_skew_minus") = 0
    ELSE \E i \in DOMAIN mergeGCSkewFeatures(ts) :
             LET value == mergeGCSkewFeatures(ts)[i].value
             IN  \/ value > 0 /\ findTrack(ts, "gc_skew_plus") = 0
                 \/ value <= 0 /\ findTrack(ts, "gc_skew_minus") = 0

\* CircularRenderer.renderCanvasFeatures / renderSvgFeatures: the sectors in
\* the feature container after the pass
drawFeatures(kind, ts, r, highlighted) ==
    LET nonGC == visibleNonGCTracks(ts)
        trackHeight == calculateTrackHeight(Len(nonGC), trackVisible(ts, "gc_content"),
                                            gcSkewVisible(ts), r)
        spacing == TRACK_SPACING * SubPixel
        afterNonGC == r * SubPixel - Len(nonGC) * (trackHeight + spacing)
        afterGC == IF trackVisible(ts, "gc_content")
                   THEN afterNonGC - trackHeight - spacing ELSE afterNonGC
    IN  renderTracks(ts, nonGC, r * SubPixel, trackHeight, spacing, highlighted)
        \o (IF trackVisible(ts, "gc_content")
            THEN renderTrack(ts[findTrack(ts, "gc_content")], 0, afterNonGC, trackHeight,
                             highlighted)
            ELSE <<>>)
        \o (IF gcSkewVisible(ts)
            THEN <<Sector(afterGC, afterGC - trackHeight, 0, TwoPi)>>
                 \o (IF mergedGCSkewThrows(kind, ts) THEN <<>>
                     ELSE mergedGCSkewBars(mergeGCSkewFeatures(ts), 1, afterGC, trackHeight))
            ELSE <<>>)

\* the tracks of the genomes drawn
SceneTracks ==
    LET F(id, start, end, value) ==
            [id |-> id, name |-> "", type |-> "gene", start |-> start, end |-> end,
             value |-> value]
    IN  {[type |-> "gene", visible |-> v,
          features |-> <<F("a", 10, 12, 0), F("b", 100, 400, 0)>>] : v \in BOOLEAN}
        \cup {[type |-> "gc_content", visible |-> v,
               features |-> <<F("c", 0, 3000, 6000), F("d", 3000, 6000, 4500)>>] : v \in BOOLEAN}
        \cup {[type |-> "gc_skew_plus", visible |-> v,
               features |-> <<F("e", 0, 3000, 25), F("f", 3000, 6000, -10)>>] : v \in BOOLEAN}
        \cup {[type |-> "gc_skew_minus", visible |-> v,
               features |-> <<F("g", 0, 3000, 25), F("h", 3000, 6000, -10)>>] : v \in BOOLEAN}

\* the genomes drawn: up to MaxTracks tracks, a GC type at most once
SceneGenomes ==
    {ts \in UNION {[1..n -> SceneTracks] : n \in 1..MaxTracks} :
        \A i, j \in DOMAIN ts : i # j => ts[i].type # ts[j].type}

\* the feature given to highlightFeature, <<>> for none
SceneHighlights == {<<>>, <<[id |-> "a", name |-> "", start |-> 10, end |-> 12]>>}

NotDrawn == [drawn |-> FALSE, sectors |-> <<>>]

SceneInit ==
    scene = [genome |-> <<>>, radius |-> 100, highlighted |-> <<>>, highlights |-> 0,
             canvas |-> NotDrawn, svg |-> NotDrawn]

\* setGenome(genome) and highlightFeature on a canvas renderer and on an svg
\* renderer of the same size, before either has drawn
SetSceneGenome(ts, r, highlighted) ==
    /\ scene' = [genome |-> ts, radius |-> r, highlighted |-> highlighted, highlights |-> 0,
                 canvas |-> NotDrawn, svg |-> NotDrawn]
    /\ UNCHANGED nonSceneVars

\* CircularRenderer.renderCanvasFeatures, on the feature container cleared by
\* renderCanvas
RenderCanvasFeatures ==
    /\ scene.genome # <<>>
    /\ scene' = [scene EXCEPT !.canvas =
                     [drawn |-> TRUE,
                      sectors |-> drawFeatures("canvas", scene.genome, scene.radius,
                                               scene.highlighted)]]
    /\ UNCHANGED nonSceneVars

\* CircularRenderer.renderSvgFeatures, on the feature container cleared by
\* renderSvg
RenderSvgFeatures ==
    /\ scene.genome # <<>>
    /\ scene' = [scene EXCEPT !.svg =
                     [drawn |-> TRUE,
                      sectors |-> drawFeatures("svg", scene.genome, scene.radius,
                                               scene.highlighted)]]
    /\ UNCHANGED nonSceneVars

\* CircularRenderer.highlightFeature(feature), on both renderers: the
\* highlighted feature is stored and renderCanvasFeatures / renderSvgFeatures
\* draws into the feature container as it is
HighlightFeature(highlighted) ==
    /\ scene.genome # <<>>
    /\ scene.highlights < MaxHighlights
    /\ scene' = [scene EXCEPT
                     !.highlighted = highlighted,
                     !.highlights = @ + 1,
                     !.canvas = [drawn |-> TRUE,
                                 sectors |-> @.sectors \o
                                     drawFeatures("canvas", scene.genome, scene.radius,
                                                  highlighted)],
                     !.svg = [drawn |-> TRUE,
                              sectors |-> @.sectors \o
                                  drawFeatures("svg", scene.genome, scene.radius,
                                               highlighted)]]
    /\ UNCHANGED nonSceneVars

SceneNext ==
    \/ \E ts \in SceneGenomes, r \in SceneRadii, h \in SceneHighlights :
           SetSceneGenome(ts, r, h)
    \/ RenderCanvasFeatures
    \/ RenderSvgFeatures
    \/ \E h \in SceneHighlights : HighlightFeature(h)

(***************************************************************************)
(* Events (CGView.on / off / emit, BaseRenderer.on / off / emit).          *)
(*                                                                         *)
(* A callback is a name; "once" is a callback that calls off(event, once)  *)
(* when it is invoked, the others touch no listener list.                  *)
(***************************************************************************)
EventTypes == {"hover", "dataLoaded"}
Callbacks == {"f", "g", "once"}

\* callbacks.indexOf(callback) > -1, callbacks.splice(index, 1)
spliceCallback(callbacks, cb) ==
    IF \E i \in DOMAIN callbacks : callbacks[i] = cb
    THEN LET index == CHOOSE i \in DOMAIN callbacks :
                          callbacks[i] = cb /\ \A j \in 1..(i - 1) : callbacks[j] # cb
         IN  SubSeq(callbacks, 1, index - 1) \o SubSeq(callbacks, index + 1, Len(callbacks))
    ELSE callbacks

RECURSIVE forEachCallback(_, _, _, _)
\* callbacks.forEach(callback => callback(data)): the indices k..len of the
\* array as it is when index k is reached, len its length when forEach began
forEachCallback(callbacks, k, len, invoked) ==
    IF k > len THEN [callbacks |-> callbacks, invoked |-> invoked]
    ELSE IF k > Len(callbacks) THEN forEachCallback(callbacks, k + 1, len, invoked)
    ELSE forEachCallback(IF callbacks[k] = "once" THEN spliceCallback(callbacks, "once")
                         ELSE callbacks,
                         k + 1, len, Append(invoked, callbacks[k]))

EventInit ==
    /\ eventListeners = [e \in EventTypes |-> <<>>]
    /\ eventOp = [op |-> "new", event |-> "", before |-> <<>>, invoked |-> <<>>]

\* on(event, callback)
On(event, cb) ==
    /\ Len(eventListeners[event]) < MaxListeners
    /\ eventListeners' = [eventListeners EXCEPT ![event] = Append(@, cb)]
    /\ eventOp' = [op |-> "on", event |-> event, before |-> <<>>, invoked |-> <<>>]
    /\ UNCHANGED nonEventVars

\* off(event, callback)
Off(event, cb) ==
    /\ eventListeners' = [eventListeners EXCEPT ![event] = spliceCallback(@, cb)]
    /\ eventOp' = [op |-> "off", event |-> event, before |-> <<>>, invoked |-> <<>>]
    /\ UNCHANGED nonEventVars

\* emit(event, data), until it returns
Emit(event) ==
    LET done == forEachCallback(eventListeners[event], 1, Len(eventListeners[event]), <<>>)
    IN  /\ eventListeners' = [eventListeners EXCEPT ![event] = done.callbacks]
        /\ eventOp' = [op |-> "emit", event |-> event, before |-> eventListeners[event],
                       invoked |-> done.invoked]
        /\ UNCHANGED nonEventVars

EventNext ==
    \/ \E event \in EventTypes, cb \in Callbacks : On(event, cb)
    \/ \E event \in EventTypes, cb \in Callbacks : Off(event, cb)
    \/ \E event \in EventTypes : Emit(event)

(***************************************************************************)
(* A CGView and its CircularRenderer: loading, deferred renders, zoom.     *)
(*                                                                         *)
(* A genome is the number of the loadGenome call that parsed it (0: null). *)
(* It has one gene of 1000 bases and, when its text has a FASTA section,   *)
(* GC tracks whose features (windows of 1000 bases) are added by a timer.  *)
(* A timer is a record of its callback and of the renderer's genome when   *)
(* it was scheduled; a timer fires after the timers scheduled before it    *)
(* with the same or a shorter delay.  Zoom levels are in tenths.           *)
(***************************************************************************)
Formats == {"gff3", "GFF3", "genbank"}
AppZooms == {3, 10}

\* DataManager: this.parsers.get(format.toLowerCase())
hasParser(format) == format \in {"gff3", "GFF3"}

\* the features of the tracks of a genome, as they are now
genomeFeatures(w, g) ==
    IF g = 0 THEN {}
    ELSE {[genome |-> g, type |-> "gene", length |-> 1000]}
         \cup (IF g \in w.filled THEN {[genome |-> g, type |-> "gc", length |-> 999]} ELSE {})

\* a timer callback that kept the genome of the call that scheduled it
scheduledGenome(w, timer) == timer.of

\* the genome a render pass started by a timer draws: this.genome
passGenome(w, timer) == w.genome

\* CircularRenderer.render(): renderCanvas / renderSvg, drawing genome g
render(w, g) ==
    LET full == [w EXCEPT !.features = genomeFeatures(w, g),
                          !.labels = {f \in genomeFeatures(w, g) :
                                          shouldRenderLabel(f.length, w.zoom)},
                          !.pass = "full"]
    IN  IF w.kind = "canvas"
        THEN IF w.surface # "ready"
             THEN [w EXCEPT !.pass = "waiting",
                            !.timers = Append(@, [kind |-> "retry", of |-> w.genome])]
             ELSE full
        ELSE IF g # 0
             THEN [full EXCEPT !.timers = Append(@, [kind |-> "second", of |-> w.genome])]
             ELSE full

\* a zoom that laid the view out again
setZoomLevelAndRender(w, level) == render([w EXCEPT !.zoom = level], w.genome)

\* CircularRenderer.setZoomLevel(level, point), less the view transform
setZoomLevel(w, level) == [w EXCEPT !.zoom = level]

\* a load that emitted dataLoaded whether or not it had a parser
loadUnchecked(w, format, fasta) ==
    [w EXCEPT !.error = ~hasParser(format), !.emitted = "dataLoaded"]

\* CGView.loadGenome(data, format) until its promise settles
loadGenome(w, format, fasta) ==
    IF ~hasParser(format) THEN [w EXCEPT !.error = TRUE]
    ELSE LET g == w.loads + 1
             parsed == [w EXCEPT !.loads = g,
                                 !.timers = IF fasta
                                            THEN Append(@, [kind |-> "gc", of |-> g]) ELSE @]
             set == [parsed EXCEPT !.cgGenome = g, !.genome = g,
                                   !.spatialIndex = genomeFeatures(parsed, g),
                                   !.timers = Append(@, [kind |-> "render", of |-> g])]
         IN  [render(set, g) EXCEPT !.emitted = "dataLoaded"]

\* delays with a GC computation that took longer than the deferred renders
delayGCLast(timer) ==
    CASE timer.kind = "gc" -> 200
      [] timer.kind = "render" -> 50
      [] OTHER -> 100

\* the delay of a timer, in ms: setTimeout(..., 0), 50, 100
delay(timer) ==
    CASE timer.kind = "gc" -> 0
      [] timer.kind = "render" -> 50
      [] OTHER -> 100

\* the callback of a timer
fire(w, timer) ==
    CASE timer.kind = "gc" -> [w EXCEPT !.filled = @ \cup {timer.of}]
      [] timer.kind = "second" ->
             [w EXCEPT !.features = genomeFeatures(w, passGenome(w, timer)),
                       !.pass = "second"]
      [] OTHER -> render(w, passGenome(w, timer))

AppInit ==
    /\ world \in {[kind |-> k, surface |-> IF k = "svg" THEN "ready" ELSE "pending",
                   cgGenome |-> 0, genome |-> 0, zoom |-> 10, offset |-> <<0, 0>>,
                   spatialIndex |-> {}, filled |-> {}, loads |-> 0, calls |-> 0,
                   timers |-> <<>>, features |-> {}, labels |-> {}, pass |-> "none",
                   error |-> FALSE, emitted |-> ""] :
                  k \in {"canvas", "svg"}}
    /\ appOp = [op |-> "new", format |-> "", timer |-> <<>>]

\* a step begins: no render pass, no error and no event yet
Begun(w) == [w EXCEPT !.pass = "none", !.error = FALSE, !.emitted = ""]

\* a call begins: one call more
Called(w) == [Begun(w) EXCEPT !.calls = w.calls + 1]

\* CGView.loadGenome(data, format)
LoadGenome(format, fasta) ==
    /\ world.calls < MaxCalls /\ world.surface # "destroyed"
    /\ world' = loadGenome(Called(world), format, fasta)
    /\ appOp' = [op |-> "loadGenome", format |-> format, timer |-> <<>>]
    /\ UNCHANGED nonAppVars

\* CGView.setZoomLevel(level)
AppSetZoomLevel(level) ==
    /\ world.calls < MaxCalls /\ world.surface # "destroyed"
    /\ world' = setZoomLevel(Called(world), level)
    /\ appOp' = [op |-> "setZoomLevel", format |-> "", timer |-> <<>>]
    /\ UNCHANGED nonAppVars

\* CGView.setPanOffset(offset), less the view transform
AppSetPanOffset(offset) ==
    /\ world.calls < MaxCalls /\ world.surface # "destroyed"
    /\ world' = [Called(world) EXCEPT !.offset = offset]
    /\ appOp' = [op |-> "setPanOffset", format |-> "", timer |-> <<>>]
    /\ UNCHANGED nonAppVars

\* app.init() resolves: the stage exists, 'initialized' is emitted and its
\* listener renders
StageCreated ==
    /\ world.kind = "canvas" /\ world.surface = "pending"
    /\ world' = render([Begun(world) EXCEPT !.surface = "ready", !.emitted = "initialized"],
                        world.genome)
    /\ appOp' = [op |-> "initialized", format |-> "", timer |-> <<>>]
    /\ UNCHANGED nonAppVars

\* app.init() rejects: the fallback canvas, the stage stays null
StageFailed ==
    /\ world.kind = "canvas" /\ world.surface = "pending"
    /\ world' = [Begun(world) EXCEPT !.surface = "failed"]
    /\ appOp' = [op |-> "initFailed", format |-> "", timer |-> <<>>]
    /\ UNCHANGED nonAppVars

\* BaseRenderer.destroy(), as CGView.setRendererType calls it on the renderer
\* it replaces: the stage is null from now on, the svg container is kept, the
\* pending timers stay, and the calls on the CGView go to another renderer
Destroy ==
    /\ world.surface # "destroyed"
    /\ world' = [Begun(world) EXCEPT !.surface = "destroyed"]
    /\ appOp' = [op |-> "destroy", format |-> "", timer |-> <<>>]
    /\ UNCHANGED nonAppVars

\* a pending timer fires: none scheduled before it with a delay that is not
\* longer is still pending
FireTimer(i) ==
    /\ i \in DOMAIN world.timers
    /\ \A j \in 1..(i - 1) : delay(world.timers[j]) > delay(world.timers[i])
    /\ world' = fire([Begun(world) EXCEPT
                          !.timers = SubSeq(@, 1, i - 1) \o SubSeq(@, i + 1, Len(@))],
                     world.timers[i])
    /\ appOp' = [op |-> "timer", format |-> "", timer |-> <<world.timers[i]>>]
    /\ UNCHANGED nonAppVars

Timers == \E i \in 1..(3 * MaxCalls) : FireTimer(i)

AppNext ==
    \/ \E format \in Formats, fasta \in BOOLEAN : LoadGenome(format, fasta)
    \/ \E level \in AppZooms : AppSetZoomLevel(level)
    \/ \E offset \in PanInputs : AppSetPanOffset(offset)
    \/ StageCreated
    \/ StageFailed
    \/ Destroy
    \/ Timers

(***************************************************************************)
(* The Feature model (Feature.constructor, toJSON, fromJSON).              *)
(*                                                                         *)
(* A property that may be undefined is a tuple: <<>> is undefined, <<v>>   *)
(* is the value v.  An attributes object is a function from its keys to    *)
(* strings.  generateId() reads the clock and Math.random(): the id it     *)
(* returns is any member of GeneratedIds.                                  *)
(***************************************************************************)
GeneratedIds == {"feature_1_17", "feature_2_4"}
AttributeObjects ==
    {<<>>, <<[k \in {} |-> ""]>>, <<[k \in {"value"} |-> "0.5"]>>,
     <<[k \in {"ID", "Name"} |-> IF k = "ID" THEN "g1" ELSE "dnaA"]>>}
FeatureData ==
    [id : {<<>>, <<"">>, <<"g1">>},
     name : {<<>>, <<"">>, <<"dnaA">>},
     type : {<<>>, <<"">>, <<"gene">>},
     start : {<<>>} \cup {<<n>> : n \in -1..MaxFeaturePos},
     end : {<<>>} \cup {<<n>> : n \in -1..MaxFeaturePos},
     strand : {<<>>, <<"+">>, <<"-">>},
     attributes : AttributeObjects,
     sequenceId : {<<>>, <<"chr1">>}]

\* new Feature(data); generated is what generateId() returns if it is called
Feature(data, generated) ==
    LET orString(x, d) == IF x = <<>> \/ x[1] = "" THEN d ELSE x[1]
        orNumber(x, d) == IF x = <<>> \/ x[1] = 0 THEN d ELSE x[1]
        start == orNumber(data.start, 0)
        end == orNumber(data.end, 0)
    IN  [id |-> orString(data.id, generated),
         name |-> data.name,
         type |-> orString(data.type, "CDS"),
         start |-> IF start > end THEN end ELSE start,
         end |-> IF start > end THEN start ELSE end,
         strand |-> orString(data.strand, "."),
         attributes |-> IF data.attributes = <<>> THEN [k \in {} |-> ""]
                        ELSE data.attributes[1],
         sequenceId |-> data.sequenceId]

toJSON(f) ==
    [id |-> <<f.id>>,
     name |-> f.name,
     type |-> <<f.type>>,
     start |-> <<f.start>>,
     end |-> <<f.end>>,
     strand |-> <<f.strand>>,
     attributes |-> <<[k \in DOMAIN f.attributes |-> f.attributes[k]]>>,
     sequenceId |-> f.sequenceId]

\* a fromJSON that gave every instance it makes an id of its own
fromJSONWithOwnId(data, generated) ==
    [Feature(data, generated) EXCEPT !.id = generated]

fromJSON(data, generated) == Feature(data, generated)

\* new Feature({}), the id being one that generateId() returned
DefaultFeature ==
    Feature([id |-> <<>>, name |-> <<>>, type |-> <<>>, start |-> <<>>, end |-> <<>>,
             strand |-> <<>>, attributes |-> <<>>, sequenceId |-> <<>>], "feature_1_17")

\* f = new Feature(data), for any data
TripInit ==
    \E data \in FeatureData, generated \in GeneratedIds :
        trip = [op |-> "new", f |-> Feature(data, generated),
                json |-> toJSON(DefaultFeature), once |-> DefaultFeature,
                twice |-> DefaultFeature]

\* json = f.toJSON()
ToJSON ==
    /\ trip.op = "new"
    /\ trip' = [trip EXCEPT !.op = "toJSON", !.json = toJSON(trip.f)]
    /\ UNCHANGED nonTripVars

\* once = Feature.fromJSON(json)
FromJSON(generated) ==
    /\ trip.op = "toJSON"
    /\ trip' = [trip EXCEPT !.op = "fromJSON", !.once = fromJSON(trip.json, generated)]
    /\ UNCHANGED nonTripVars

\* twice = Feature.fromJSON(once.toJSON())
RoundTripAgain(generated) ==
    /\ trip.op = "fromJSON"
    /\ trip' = [trip EXCEPT !.op = "again",
                            !.twice = fromJSON(toJSON(trip.once), generated)]
    /\ UNCHANGED nonTripVars

TripNext ==
    \/ ToJSON
    \/ \E generated \in GeneratedIds : FromJSON(generated)
    \/ \E generated \in GeneratedIds : RoundTripAgain(generated)

(***************************************************************************)
(* A drag gesture, with the handlers of the application attached: those of *)
(* the renderer on its scene (initializeCanvasContainers,                  *)
(* initializeSvgContainers) and those of DragAndZoomManager on the         *)
(* container, whose mousemove handler is throttled (16 ms).                *)
(*                                                                         *)
(* The pointer moves along a horizontal line, one step at a time.          *)
(***************************************************************************)
PointerSteps == {<<1, 0>>, <<0 - 1, 0>>}

\* the translation of the scene, on the backend of the renderer
ScenePos(d) == IF d.kind = "canvas" THEN <<d.scene.x, d.scene.y>> ELSE parseTranslate(d.scene)

\* the scene moved by an offset: circleContainer.position += offset on the
\* canvas, the rewritten transform attribute on svg
moveScene(d, offset) ==
    IF d.kind = "canvas" THEN canvasPan(d.scene, offset) ELSE svgPan(d.scene, offset)

\* DragAndZoomManager: the throttled mousemove handler, run with the event e:
\* cgview.pan(deltaX, deltaY), that is setPanOffset on the renderer
managerMove(d, e) ==
    IF d.manager.isDragging
    THEN [d EXCEPT !.pending = <<>>,
                   !.manager.last = e,
                   !.scene = moveScene(d, <<e[1] - d.manager.last[1],
                                            e[2] - d.manager.last[2]>>)]
    ELSE [d EXCEPT !.pending = <<>>]

DragInit ==
    drag \in {[kind |-> k,
               scene |-> IF k = "canvas" THEN FreshGroup ELSE NoTransform,
               pointer |-> <<0, 0>>,
               renderer |-> [isDragging |-> FALSE, last |-> <<0, 0>>],
               manager |-> [isDragging |-> FALSE, last |-> <<0, 0>>],
               pending |-> <<>>,
               from |-> <<0, 0>>, start |-> <<0, 0>>, gestures |-> 0,
               op |-> "new"] : k \in {"canvas", "svg"}}

\* mousedown on the circle: both handlers start a drag
MouseDown ==
    /\ ~drag.renderer.isDragging
    /\ drag.gestures < MaxGestures
    /\ drag' = [drag EXCEPT !.renderer = [isDragging |-> TRUE, last |-> drag.pointer],
                            !.manager = [isDragging |-> TRUE, last |-> drag.pointer],
                            !.from = ScenePos(drag), !.start = drag.pointer,
                            !.gestures = @ + 1, !.op = "mousedown"]
    /\ UNCHANGED nonDragVars

\* mousemove: the renderer's handler moves the scene while it drags; the
\* manager's handler is scheduled unless a call of it is pending
MouseMove(step) ==
    LET e == <<drag.pointer[1] + step[1], drag.pointer[2] + step[2]>>
        moved == IF drag.renderer.isDragging
                 THEN [drag EXCEPT !.renderer.last = e,
                                   !.scene = moveScene(drag,
                                                 <<e[1] - drag.renderer.last[1],
                                                   e[2] - drag.renderer.last[2]>>)]
                 ELSE drag
    IN  /\ e[1] \in 0..MaxPointer /\ e[2] \in 0..MaxPointer
        /\ drag' = [moved EXCEPT !.pointer = e,
                                 !.pending = IF @ = <<>> THEN <<e>> ELSE @,
                                 !.op = IF drag.renderer.isDragging THEN "mousemove"
                                        ELSE "hover"]
        /\ UNCHANGED nonDragVars

\* mouseup: both handlers end the drag
MouseUp ==
    /\ drag.renderer.isDragging
    /\ drag' = [drag EXCEPT !.renderer.isDragging = FALSE, !.manager.isDragging = FALSE,
                            !.op = "mouseup"]
    /\ UNCHANGED nonDragVars

\* the timer of the throttle fires: the manager's handler runs with the
\* event that scheduled it
ThrottledMove ==
    /\ drag.pending # <<>>
    /\ drag' = [managerMove(drag, drag.pending[1]) EXCEPT
                    !.op = IF drag.renderer.isDragging THEN "throttled" ELSE @]
    /\ UNCHANGED nonDragVars

DragNext ==
    \/ MouseDown
    \/ \E step \in PointerSteps : MouseMove(step)
    \/ MouseUp
    \/ ThrottledMove

(***************************************************************************)
(* Specifications: one per component.                                      *)
(***************************************************************************)
\* no genome is set while another component is exercised
HitParked == HitInit /\ radius = 100
AppParked == AppInit /\ world.kind = "svg"
DragParked == DragInit /\ drag.kind = "svg"
TripParked ==
    trip = [op |-> "new", f |-> DefaultFeature, json |-> toJSON(DefaultFeature),
            once |-> DefaultFeature, twice |-> DefaultFeature]

InitTree == TreeInit /\ ViewParked /\ LabelInit /\ HitParked /\ LodInit /\ FeatInit /\ SceneInit /\ EventInit /\ AppParked /\ TripParked /\ DragParked
SpecTree == InitTree /\ [][TreeNext]_vars

InitView == ViewInit /\ TreeInit /\ LabelInit /\ HitParked /\ LodInit /\ FeatInit /\ SceneInit /\ EventInit /\ AppParked /\ TripParked /\ DragParked
SpecView == InitView /\ [][ViewNext]_vars

InitLabel == LabelInit /\ TreeInit /\ ViewParked /\ HitParked /\ LodInit /\ FeatInit /\ SceneInit /\ EventInit /\ AppParked /\ TripParked /\ DragParked
SpecLabel == InitLabel /\ [][LabelNext]_vars

InitHit == HitInit /\ TreeInit /\ ViewParked /\ LabelInit /\ LodInit /\ FeatInit /\ SceneInit /\ EventInit /\ AppParked /\ TripParked /\ DragParked
SpecHit == InitHit /\ [][HitNext]_vars

InitLod == LodInit /\ TreeInit /\ ViewParked /\ LabelInit /\ HitParked /\ FeatInit /\ SceneInit /\ EventInit /\ AppParked /\ TripParked /\ DragParked
SpecLod == InitLod /\ [][LodNext]_vars

InitFeat == FeatInit /\ TreeInit /\ ViewParked /\ LabelInit /\ HitParked /\ LodInit /\ SceneInit /\ EventInit /\ AppParked /\ TripParked /\ DragParked
SpecFeat == InitFeat /\ [][FeatNext]_vars

InitScene == SceneInit /\ TreeInit /\ ViewParked /\ LabelInit /\ HitParked /\ LodInit /\ FeatInit /\ EventInit /\ AppParked /\ TripParked /\ DragParked
SpecScene == InitScene /\ [][SceneNext]_vars

InitEvent ==
    EventInit /\ TreeInit /\ ViewParked /\ LabelInit /\ HitParked /\ LodInit /\ FeatInit /\ SceneInit
    /\ AppParked /\ TripParked /\ DragParked
SpecEvent == InitEvent /\ [][EventNext]_vars

InitApp ==
    AppInit /\ TreeInit /\ ViewParked /\ LabelInit /\ HitParked /\ LodInit /\ FeatInit /\ SceneInit
    /\ EventInit /\ TripParked /\ DragParked
SpecApp == InitApp /\ [][AppNext]_vars

InitTrip ==
    TripInit /\ TreeInit /\ ViewParked /\ LabelInit /\ HitParked /\ LodInit /\ FeatInit /\ SceneInit
    /\ EventInit /\ AppParked /\ DragParked
SpecTrip == InitTrip /\ [][TripNext]_vars

InitDrag ==
    DragInit /\ TreeInit /\ ViewParked /\ LabelInit /\ HitParked /\ LodInit /\ FeatInit /\ SceneInit
    /\ EventInit /\ AppParked /\ TripParked
SpecDrag == InitDrag /\ [][DragNext]_vars

\* timers fire, and app.init() settles
SpecAppLive ==
    SpecApp /\ WF_vars(Timers) /\ WF_vars(StageCreated \/ StageFailed)

(***************************************************************************)
(* Properties.                                                             *)
(***************************************************************************)
StoredFeatures == {features[i] : i \in DOMAIN features}

\* C1: after inserts of features with distinct ids only, query(a, b) returns
\* exactly the inserted features f with f.end >= a and f.start <= b, each once:
\* the pruning misses no overlapping feature and returns no other one.
C1_QueryExact ==
    (treeOp.op = "query" /\ treeHist) =>
        /\ SeqToSet(results) =
              {f \in StoredFeatures : f.end >= treeOp.start /\ f.start <= treeOp.end}
        /\ Len(results) = Cardinality(SeqToSet(results))

\* C2: a query that follows remove(id) returns no feature with that id,
\* whatever was inserted before (ids that were already stored included).
C2_RemovedNotReturned ==
    (treeOp.op = "query" /\ treeOp.id # 0) =>
        \A i \in DOMAIN results : results[i].id # treeOp.id

\* a step that is a zoom call with an anchor point, made with the containers
\* initialised, keeps (p - position) / scale (compared by cross-multiplication)
C3_StepAnchored ==
    (viewOp'.op = "zoom" /\ viewOp'.point # NoPoint /\ containersReady) =>
        /\ (viewOp'.point[1] - GroupPos[1]) * GroupScale' =
           (viewOp'.point[1] - GroupPos'[1]) * GroupScale
        /\ (viewOp'.point[2] - GroupPos[2]) * GroupScale' =
           (viewOp'.point[2] - GroupPos'[2]) * GroupScale

\* C3: a zoom call with an anchor point, made with the containers initialised,
\* leaves the world coordinate under the anchor unchanged:
\* (p - position) / scale is the same before and after the call.
C3_ZoomAnchorInvariant == [][C3_StepAnchored]_vars

\* C9: with the containers initialised, the scene position after a run of
\* pan calls is the position before the run plus the sum of the offsets,
\* on both backends.
C9_PanCumulative ==
    (containersReady /\ viewOp.op = "pan") =>
        GroupPos = <<pan.base[1] + pan.acc[1], pan.base[2] + pan.acc[2]>>

C9_Witness ==
    /\ rendererType = "svg" /\ containersReady /\ viewOp.op = "pan"
    /\ pan.n >= 2 /\ pan.acc[1] # 0 /\ pan.acc[2] # 0
    /\ pan.base # <<0, 0>>
    /\ GroupPos = <<pan.base[1] + pan.acc[1], pan.base[2] + pan.acc[2]>>

\* C10: after a zoom call without an anchor point, made with the containers
\* initialised, the centre of the circle is displayed at the midpoint of the
\* canvas (width / 2, height / 2), on both backends.
C10_ZoomRecentres ==
    (containersReady /\ viewOp.op = "zoom" /\ viewOp.point = NoPoint) =>
        /\ GroupPos[1] * ZoomDen + ctrl.centerX * GroupScale = (ctrl.width \div 2) * ZoomDen
        /\ GroupPos[2] * ZoomDen + ctrl.centerY * GroupScale = (ctrl.height \div 2) * ZoomDen

\* two intervals share an angle
overlaps(a, b) == a.start < b.end /\ a.end > b.start

\* an interval turned by k full circles
shifted(a, k) == [start |-> a.start + k * TwoPi, end |-> a.end + k * TwoPi]

\* C4: no two accepted label intervals overlap on the circle: not directly,
\* and not after one of them is shifted by +2 pi or by -2 pi, whatever the
\* order the candidates were processed in.
C4_NoLabelOverlap ==
    \A i \in DOMAIN renderedLabelAngles : \A j \in DOMAIN renderedLabelAngles :
        i # j => \A k \in {-1, 0, 1} :
            ~overlaps(shifted(renderedLabelAngles[i], k), renderedLabelAngles[j])

\* the tracks that get a band, from the outermost: the visible tracks that
\* are not GC tracks in genome order, gc_content, the GC skew pair
StackOrder ==
    visibleNonGCTracks(tracks)
    \o (IF trackVisible(tracks, "gc_content") THEN <<findTrack(tracks, "gc_content")>> ELSE <<>>)
    \o (IF gcSkewVisible(tracks) THEN <<skewTrack(tracks)>> ELSE <<>>)

\* clamp(radius / (bandCount + 2), 15, 30), in sub-pixel units
StackTrackHeight ==
    LET h == (radius * SubPixel) \div (Len(StackOrder) + 2)
    IN  IF h < 15 * SubPixel THEN 15 * SubPixel
        ELSE IF h > 30 * SubPixel THEN 30 * SubPixel ELSE h

\* the band of the k-th track of the stack
StackBand(k) ==
    LET outer == radius * SubPixel - (k - 1) * (StackTrackHeight + TRACK_SPACING * SubPixel)
    IN  [track |-> StackOrder[k], innerRadius |-> outer - StackTrackHeight, outerRadius |-> outer]

\* the pointer of the last hover: its distance from the centre, and twice
\* its genomic position
HoverDistance == pointerDistance(hitOp.x - ctrl.centerX, hitOp.y - ctrl.centerY)
HoverPosition2 ==
    (pointerQuarter(hitOp.x - ctrl.centerX, hitOp.y - ctrl.centerY) * HitGenomeLength) \div 2

\* the tracks whose band holds the pointer of the last hover
HoverMatched ==
    {StackOrder[k] : k \in {j \in DOMAIN StackOrder :
        /\ HoverDistance >= StackBand(j).innerRadius
        /\ HoverDistance <= StackBand(j).outerRadius}}

\* twice min(|d|, genomeLength - |d|) for a feature and the last hover
HoverCircular2(f) ==
    LET d2 == Abs(f.start + f.end - HoverPosition2)
    IN  Min(d2, 2 * HitGenomeLength - d2)

\* C5: detectHoveredFeature returns null when no band of a visible track
\* holds the pointer's distance from the centre or the matched track has no
\* features; otherwise it returns a feature of the matched track whose centre
\* is at the least circular distance from the pointer's genomic position.
C5_HitTest ==
    hitOp.op = "hover" =>
        IF HoverMatched = {} THEN hitOp.result = <<>>
        ELSE \A t \in HoverMatched :
                IF tracks[t].features = <<>> THEN hitOp.result = <<>>
                ELSE /\ hitOp.result # <<>>
                     /\ hitOp.result[1] \in SeqToSet(tracks[t].features)
                     /\ \A g \in SeqToSet(tracks[t].features) :
                            HoverCircular2(hitOp.result[1]) <= HoverCircular2(g)

C5_Witness ==
    /\ hitOp.op = "hover" /\ hitOp.result # <<>>
    /\ Cardinality(HoverMatched) = 1
    /\ Len(StackOrder) = 3
    /\ Abs(hitOp.result[1].start + hitOp.result[1].end - HoverPosition2) > HitGenomeLength
    /\ \E t \in HoverMatched : Len(tracks[t].features) = 3 /\ StackOrder[2] = t

\* C7: the bands drawn for the visible tracks have the outer radii radius,
\* radius - (trackHeight + spacing), ... in the order: visible tracks that
\* are not GC tracks (genome order), gc_content, one band for the GC skew
\* pair; trackHeight is clamp(radius / (bandCount + 2), 15, 30); and
\* hit-testing computes the same bands as the renderer.
C7_TrackStacking ==
    hitOp.op = "render" =>
        /\ Len(hitOp.bands) = Len(StackOrder)
        /\ \A k \in DOMAIN StackOrder : hitOp.bands[k] = StackBand(k)
        /\ trackRanges(tracks, radius) = hitOp.bands

C7_Witness ==
    /\ hitOp.op = "render" /\ Len(hitOp.bands) = 3
    /\ tracks[1].type = "gc_content" /\ tracks[1].visible
    /\ tracks[2].type = "gc_skew_minus" /\ tracks[2].visible
    /\ tracks[3].type = "gene" /\ tracks[3].visible
    /\ hitOp.bands[1].track = 3 /\ hitOp.bands[2].track = 1 /\ hitOp.bands[3].track = 2
    /\ StackTrackHeight > 15 * SubPixel /\ StackTrackHeight < 30 * SubPixel
    /\ hitOp.bands[3].outerRadius = radius * SubPixel - 2 * (StackTrackHeight + 5 * SubPixel)

\* the buckets of the table that hold the zoom of the last call
LodHolding ==
    {i \in DOMAIN levels :
        /\ levels[i].minZoom <= lodOp.zoom
        /\ (levels[i].maxZoom = Infinity \/ lodOp.zoom < levels[i].maxZoom)}

\* C6: with the default table of six buckets, exactly one bucket has
\* minZoom <= z < maxZoom for every zoom z >= 0, and getLOD(z) returns it.
C6_UniqueBucket ==
    lodOp.op = "getLOD" =>
        /\ Cardinality(LodHolding) = 1
        /\ \A i \in LodHolding : lodOp.detailLevel = levels[i].detailLevel

C6_Witness ==
    /\ lodOp.op = "getLOD" /\ lodOp.zoom = 10 /\ lodOp.detailLevel = 4
    /\ LodHolding = {4}

\* the configuration of the path the last feature was drawn on
FeatConfig == IF featOp.op = "export" THEN ExportConfig ELSE RENDER_CONFIG

\* the last feature drawn has a base span below the minimum width
FeatShort ==
    /\ featOp.op # "new"
    /\ ((featOp.feature.end - featOp.feature.start) * TwoPi) \div LabelGenomeLength
           < FeatConfig.MIN_ANGLE_WIDTH

\* the sector of the last feature is centred on the feature's midpoint
FeatCentred ==
    featOp.startAngle + featOp.endAngle
        = (featOp.feature.start * TwoPi) \div LabelGenomeLength
          + (featOp.feature.end * TwoPi) \div LabelGenomeLength

C11_BackendEquivalence ==
    (scene.canvas.drawn /\ scene.svg.drawn) => scene.canvas.sectors = scene.svg.sectors

\* C12: emit(event, data) invokes, before it returns, every callback that was
\* registered for the event when it was called, in the order of the on()
\* calls, and no other callback.
C12_EmitInRegistrationOrder ==
    eventOp.op = "emit" => eventOp.invoked = eventOp.before

\* a timer that calls render() is pending
RenderTimerPending ==
    \E i \in DOMAIN world.timers : world.timers[i].kind \in {"render", "retry"}

\* C13: when the initialisation of the canvas backend has failed (the stage
\* stays null), a deferred render is not retried for ever: eventually no
\* render timer is pending.
C13_RetryStops == [](world.surface = "failed" => <>[](~RenderTimerPending))

\* a step of the CGView: setGenome keeps the timers that were pending, and a
\* render pass leaves in the feature container features of this.genome only
C14_Step ==
    /\ appOp'.op = "loadGenome" =>
           SubSeq(world'.timers, 1, Len(world.timers)) = world.timers
    /\ world'.pass \in {"full", "second"} =>
           \A f \in world'.features : f.genome = world'.genome
    /\ world'.pass = "full" => \A f \in world'.labels : f.genome = world'.genome

\* C14: a setGenome(g2) made while the render timer of an earlier
\* setGenome(g1) is pending leaves that timer pending, and every render pass
\* executed after it (first pass, retry or second svg pass) draws features of
\* g2 only.
C14_DeferredRenderSuperseded == [][C14_Step]_vars

C14_Witness ==
    /\ appOp.op = "timer" /\ appOp.timer[1].kind = "render" /\ appOp.timer[1].of = 1
    /\ world.genome = 2 /\ world.pass = "full"
    /\ world.features # {}

\* a step of setZoomLevel or setPanOffset: no render pass, no timer, and the
\* containers, the genome and the spatial index as they were
C15_Step ==
    appOp'.op \in {"setZoomLevel", "setPanOffset"} =>
        /\ world'.pass = "none"
        /\ world'.timers = world.timers
        /\ world'.features = world.features /\ world'.labels = world.labels
        /\ world'.genome = world.genome /\ world'.cgGenome = world.cgGenome
        /\ world'.filled = world.filled /\ world'.spatialIndex = world.spatialIndex

\* C15: setZoomLevel and setPanOffset never call render(), never clear or
\* fill the feature and label containers and never change the genome data.
C15_ZoomPanOnlyTransform == [][C15_Step]_vars

C15_Witness ==
    /\ appOp.op = "setZoomLevel" /\ world.zoom = 3
    /\ world.surface = "ready" /\ world.genome = 1
    /\ world.labels # {} /\ world.timers = <<>>

\* C16: once the timers have fired, the labels drawn are those of
\* getFeaturesWithLabels at the current zoom level: a zoom into an LOD bucket
\* with another showLabels setting has laid the view out again.
C16_LabelsFollowZoom ==
    (world.surface = "ready" /\ world.timers = <<>>) =>
        world.labels = {f \in genomeFeatures(world, world.genome) :
                            shouldRenderLabel(f.length, world.zoom)}

\* a loadGenome with a format without a parser: an error, and nothing else
C17_Step ==
    (appOp'.op = "loadGenome" /\ appOp'.format = "genbank") =>
        /\ world'.error
        /\ world'.cgGenome = world.cgGenome /\ world'.genome = world.genome
        /\ world'.spatialIndex = world.spatialIndex
        /\ world'.timers = world.timers /\ world'.pass = "none"
        /\ world'.features = world.features /\ world'.labels = world.labels
        /\ world'.emitted = ""

\* C17: loadGenome with a format that has no registered parser fails with an
\* error; the loaded genome is unchanged, setGenome is not called, nothing is
\* rendered and dataLoaded is not emitted.
C17_UnsupportedFormatFails == [][C17_Step]_vars

C17_Witness ==
    /\ appOp.op = "loadGenome" /\ appOp.format = "genbank"
    /\ world.error /\ world.cgGenome = 1 /\ world.features # {}

\* C18: once loadGenome(g) has completed and the pending timers have fired,
\* the spatial index holds exactly the features of the tracks of g.
C18_SpatialIndexComplete ==
    (world.genome # 0 /\ world.timers = <<>>) =>
        world.spatialIndex = genomeFeatures(world, world.genome)


\* C19: for every Feature f, Feature.fromJSON(f.toJSON()) has the id, name,
\* type, start, end, strand and attributes of f, and the round trip applied
\* twice gives what it gives applied once.
C19_FeatureRoundTrip ==
    LET same(a, b) ==
            /\ a.id = b.id /\ a.name = b.name /\ a.type = b.type
            /\ a.start = b.start /\ a.end = b.end /\ a.strand = b.strand
            /\ DOMAIN a.attributes = DOMAIN b.attributes
            /\ \A k \in DOMAIN a.attributes : a.attributes[k] = b.attributes[k]
    IN  /\ trip.op \in {"fromJSON", "again"} => same(trip.once, trip.f)
        /\ trip.op = "again" => trip.twice = trip.once

\* a feature built without an id from positions given in reverse order, with
\* attributes, has gone through the round trip twice
C19_Witness ==
    /\ trip.op = "again"
    /\ trip.f.id \in GeneratedIds
    /\ trip.f.start = 1 /\ trip.f.end = 2
    /\ trip.f.name = <<>>
    /\ DOMAIN trip.f.attributes = {"ID", "Name"}

\* C20: after any sequence of insert and remove calls, the max cached in every
\* node is the largest feature.end of the node and the nodes of its subtree,
\* and the tree is a binary search tree by feature centre: the centres of a
\* left subtree are below the node's centre, those of a right subtree are not.
C20_MaxEndAndSearchTree ==
    LET RECURSIVE Nodes(_)
        Nodes(n) == IF n = Nil THEN {}
                    ELSE {n} \cup Nodes(NodeLeft(n)) \cup Nodes(NodeRight(n))
        Ends(n) == {f.end : f \in SeqToSet(TreeFeatures(n))}
        Centres(n) == {Center2(f) : f \in SeqToSet(TreeFeatures(n))}
    IN  \A n \in Nodes(root) :
            /\ NodeMax(n) \in Ends(n)
            /\ \A e \in Ends(n) : e <= NodeMax(n)
            /\ \A c \in Centres(NodeLeft(n)) : c < Center2(NodeFeature(n))
            /\ \A c \in Centres(NodeRight(n)) : Center2(NodeFeature(n)) <= c

\* remove(id) has left two nodes, none with that id, and the root caches the
\* end of its right child, which lies beyond its own
C20_Witness ==
    /\ treeOp.op = "remove"
    /\ Len(TreeFeatures(root)) = 2
    /\ \A f \in SeqToSet(TreeFeatures(root)) : f.id # treeOp.id
    /\ NodeRight(root) # Nil
    /\ NodeMax(root) > NodeFeature(root).end

\* C21: after any zoom and pan calls, resetView() leaves the scene with
\* scale 1 and the translation it had when its containers were created, on
\* both backends.
C21_ResetRestoresView ==
    (viewOp.op = "reset" /\ containersReady) =>
        /\ GroupScale = ZoomDen
        /\ GroupPos = (IF rendererType = "canvas" THEN <<FreshGroup.x, FreshGroup.y>>
                       ELSE parseTranslate(NoTransform))

\* C22: when the pointer is inside the canvas and the sector of no feature
\* covers it (a position of a track band between two features included),
\* handleMouseMove emits hover with null.
C22_HoverEmptyClears ==
    LET covers(f) ==
            \/ 2 * f.start <= HoverPosition2 /\ HoverPosition2 <= 2 * f.end
            \/ HoverPosition2 = 0 /\ f.end = HitGenomeLength
    IN  (/\ hitOp.op = "hover"
         /\ \A t \in HoverMatched :
                \A f \in SeqToSet(tracks[t].features) : ~covers(f))
        => hitOp.result = <<>>

\* C23: after loadGenome of data with sequence data, once the pending timers
\* have fired, the last render pass ran after the GC features were added to
\* the GC tracks: the picture holds the GC bars of the genome.
C23_GCTracksDisplayed ==
    (world.genome # 0 /\ world.genome \in world.filled /\ world.timers = <<>>) =>
        /\ [genome |-> world.genome, type |-> "gc", length |-> 999] \in world.features
        /\ world.features = genomeFeatures(world, world.genome)

\* the second pass of the svg renderer was the last timer of a second genome
\* with sequence data, and drew its GC bars
C23_Witness ==
    /\ world.kind = "svg" /\ world.pass = "second" /\ world.timers = <<>>
    /\ world.genome = 2 /\ world.filled = {1, 2}
    /\ [genome |-> 2, type |-> "gc", length |-> 999] \in world.features

\* C24: in every state reached by setZoomLevel (before or after the backend
\* is initialised), setPanOffset and updateSize, the zoom level kept by
\* CircularRenderer and by ZoomPanController is the scale applied to the
\* scene, on the canvas and on svg.
C24_ScaleConsistency ==
    containersReady =>
        /\ zoomLevel = ctrl.zoomLevel
        /\ GroupScale = zoomLevel

\* a step of a destroyed renderer runs no render pass and schedules no timer
\* (the timer that fires is gone, none is added)
C25_Step ==
    (world.surface = "destroyed" /\ appOp'.op = "timer") =>
        /\ world'.pass = "none"
        /\ Len(world'.timers) < Len(world.timers)

\* C25: after destroy(), no render pass of the renderer executes and it
\* schedules no new timer, also when timers scheduled before destroy() fire.
C25_DestroyedQuiescent == [][C25_Step]_vars

\* C26: once a drag gesture is over (mousedown on the circle, mouse moves of
\* total displacement D, mouseup, no throttled call pending), the translation
\* of the scene has changed by exactly D.
C26_DragMovesOnce ==
    (drag.op = "mouseup" /\ drag.pending = <<>>) =>
        /\ ScenePos(drag)[1] - drag.from[1] = drag.pointer[1] - drag.start[1]
        /\ ScenePos(drag)[2] - drag.from[2] = drag.pointer[2] - drag.start[2]

\* C27: after any render() and highlightFeature(f) calls, the feature
\* container holds as many primitives as a single render pass produces: one
\* per track background and per drawn feature.
C27_NoDuplicatePrimitives ==
    /\ scene.canvas.drawn =>
           Len(scene.canvas.sectors) =
               Len(drawFeatures("canvas", scene.genome, scene.radius, scene.highlighted))
    /\ scene.svg.drawn =>
           Len(scene.svg.sectors) =
               Len(drawFeatures("svg", scene.genome, scene.radius, scene.highlighted))

\* C28: every band of the stack drawn for the visible tracks, and every band
\* hit-testing computes, has an inner radius >= 0 (the stack never extends
\* past the centre), and no two bands overlap.
C28_BandsInsideCircle ==
    hitOp.op = "render" =>
        LET inside(bands) ==
                /\ \A k \in DOMAIN bands : bands[k].innerRadius >= 0
                /\ \A j \in DOMAIN bands : \A k \in DOMAIN bands :
                       j < k => bands[k].outerRadius < bands[j].innerRadius
        IN  inside(hitOp.bands) /\ inside(trackRanges(tracks, radius))

\* C29: when a callback calls off() for itself while emit() is dispatching,
\* every callback that was registered when emit() started and has not been
\* removed is invoked by that emit exactly once for each of its registrations.
C29_DispatchRobust ==
    LET times(callbacks, cb) == Cardinality({i \in DOMAIN callbacks : callbacks[i] = cb})
    IN  eventOp.op = "emit" =>
            \A cb \in Callbacks \ {"once"} :
                times(eventOp.invoked, cb) = times(eventOp.before, cb)
====
